---------------------------- MODULE Spec2Model ----------------------------
(***************************************************************************)
(* A model of the weekend ray tracer's tile scheduler (src/src/main.rs),   *)
(* the factor iterator it relies on (src/src/math.rs) and the recursive    *)
(* integrator `color`.                                                     *)
(*                                                                         *)
(* These state machines share the variables below:                         *)
(*   SpecTiling  applies the pure function pick_tiling_dimensions to       *)
(*               every input of a bounded set;                             *)
(*   Spec        is write_image: prologue, parallel tile tasks, the        *)
(*               cancellation flag, the progress listener and assembly;    *)
(*   SpecFair    is Spec with its threads scheduled fairly;                *)
(*   SpecTwice   is the program executed twice on the same options;        *)
(*   SpecColor   is one call tree of color(ray, world, 0);                 *)
(*   SpecSample  is the sample loop of one pixel around color;             *)
(*   SpecPath    is one light path, from scatter to scatter;               *)
(*   SpecScene   is a scene and a camera under the calls that read them;   *)
(*   SpecCross, SpecFactors, SpecSphere, SpecList, SpecBox, SpecSlab,      *)
(*   SpecDielectric and SpecMetal apply one function of float3.rs,         *)
(*   math.rs, hitable.rs or material.rs to every input of a bounded set.   *)
(***************************************************************************)
EXTENDS Integers, Sequences, FiniteSets, TLC

(***************************************************************************)
(* Bounds of the model.                                                    *)
(***************************************************************************)
\* SpecTiling: requested tile counts 0..MaxTileCount, image sides 1..MaxDim.
MaxTileCount == 12
MaxDim == 9
\* Spec: images of at most MaxPixels pixels, requested tile counts
\* 0..MaxPixels, rendered on a rayon pool of Threads threads.
MaxPixels == 4
Threads == 2
\* SpecTwice: two executions on images of at most MaxPixelsTwice pixels.
MaxPixelsTwice == 2
\* SpecCross: vectors with components in -MaxCoord..MaxCoord.
MaxCoord == 1
\* SpecFactors: the numbers 0..MaxFactorInput.
MaxFactorInput == 30
\* SpecSphere: centres with coordinates in -MaxCenter..MaxCenter, radii up
\* to MaxRadius, upper bounds t_max in 0..MaxT.
MaxCenter == 2
MaxRadius == 2
MaxT == 4
\* SpecList: lists of at most MaxMembers spheres centred at x in
\* 1..MaxListCenter, upper bounds t_max in 0..MaxListT.
MaxMembers == 3
MaxListCenter == 3
MaxListT == 4
\* SpecBox: lists of at most MaxBoxMembers members whose boxes start at
\* x in 0..MaxBoxCoord.
MaxBoxMembers == 3
MaxBoxCoord == 1
\* SpecSlab: ray origins in (-1..MaxSlabOrigin)^2, tmax in 0..MaxSlabT.
MaxSlabOrigin == 2
MaxSlabT == 3
\* SpecDielectric and SpecMetal: incoming directions of integer length with
\* components in -MaxDirCoord..MaxDirCoord.
MaxDirCoord == 2
\* SpecSample: at most MaxSamples samples per pixel.
MaxSamples == 2
\* SpecScene: ray times and box times in 0..MaxSceneTime, hits searched in
\* (0, MaxSceneT).
MaxSceneTime == 2
MaxSceneT == 9
\* SpecPath: camera rays of time 0..MaxPathTime, paths of at most
\* MaxPathDepth scatters.
MaxPathTime == 1
MaxPathDepth == 2

(***************************************************************************)
(* Machine integers.  TLC's integers are 32-bit signed, so a u64 (and a    *)
(* u32 above 2^31) is held as its eight base-256 digits, least significant *)
(* first; a u32 is the low four digits of that.                            *)
(***************************************************************************)
Byte == 2 ^ 8

\* An image side (a u32 that fits TLC's integers) as a u64.
U64Of(n) == [i \in 1..8 |-> (n \div (Byte ^ (i - 1))) % Byte]

U64Zero == [i \in 1..8 |-> 0]

RECURSIVE CarryFrom(_, _, _)
\* Propagate carries through the column sums `cols` from digit i on.
CarryFrom(cols, i, carry) ==
    IF i > 8 THEN << >>
    ELSE LET t == cols[i] + carry
         IN  <<t % Byte>> \o CarryFrom(cols, i + 1, t \div Byte)

\* a + b as u64 (the model never reaches 2^64).
U64Add(a, b) == CarryFrom([i \in 1..8 |-> a[i] + b[i]], 1, 0)

\* a * b as u64, for a and b below 2^32: the schoolbook product of their digits.
U64Mul(a, b) ==
    CarryFrom([k \in 1..8 |->
                  LET Pairs == {i \in 1..4 : k + 1 - i \in 1..4}
                      Term[S \in SUBSET Pairs] ==
                          IF S = {} THEN 0
                          ELSE LET i == CHOOSE j \in S : TRUE
                               IN  a[i] * b[k + 1 - i] + Term[S \ {i}]
                  IN  Term[Pairs]], 1, 0)

\* `as u32` of a wide value wraps: the low four digits survive.
WrapU32(a) == [i \in 1..8 |-> IF i <= 4 THEN a[i] ELSE 0]

\* Whether a wide value fits a u32.
FitsU32(a) == \A i \in 5..8 : a[i] = 0

(***************************************************************************)
(* math::factors -- src/src/math.rs                                        *)
(***************************************************************************)
RECURSIVE ScanFactor(_, _)
\* The inner loop of FactorIter::next: advance cur to the next divisor of max.
ScanFactor(max, cur) ==
    LET c == cur + 1
    IN  IF max % c = 0 THEN c ELSE ScanFactor(max, c)

RECURSIVE CollectFactors(_, _)
\* Drive FactorIter::next from the state (max, cur) until it returns None.
CollectFactors(max, cur) ==
    IF cur >= max THEN << >>
    ELSE IF cur = 0 THEN <<1>> \o CollectFactors(max, 1)
    ELSE LET c == ScanFactor(max, cur)
         IN  <<c>> \o CollectFactors(max, c)

factors(num) == CollectFactors(num, 0)

(***************************************************************************)
(* pick_tiling_dimensions -- src/src/main.rs                               *)
(*                                                                         *)
(* The f64 values the function compares are ratios of small integers; the  *)
(* model holds each as a fraction [num, den], den = 0 for +infinity        *)
(* (0.0 inverted).  A fraction comparison by cross-multiplication agrees   *)
(* with the f64 comparison on every input of the bounded sets.             *)
(***************************************************************************)
\* Whether k + 1/2 exceeds sqrt(num/den), i.e. (2k + 1)^2 * den > 4 * num,
\* written with a floor so that no product leaves TLC's integers.
AboveSqrt(k, num, den) == (2 * k + 1) * (2 * k + 1) > (4 * num) \div den

RECURSIVE SqrtUpper(_, _, _)
\* The least power of two that is above the square root.
SqrtUpper(k, num, den) ==
    IF AboveSqrt(k, num, den) THEN k ELSE SqrtUpper(2 * k, num, den)

RECURSIVE SqrtSearch(_, _, _, _)
\* The least k in lo..hi above the square root, by bisection.
SqrtSearch(lo, hi, num, den) ==
    IF lo = hi THEN lo
    ELSE LET mid == (lo + hi) \div 2
         IN  IF AboveSqrt(mid, num, den)
             THEN SqrtSearch(lo, mid, num, den)
             ELSE SqrtSearch(mid + 1, hi, num, den)

\* sqrt(num/den).round(): Rust rounds half away from zero, so the result is
\* the least k with (k + 1/2)^2 > num/den.
RoundSqrt(num, den) ==
    IF AboveSqrt(0, num, den) THEN 0
    ELSE SqrtSearch(1, SqrtUpper(1, num, den), num, den)

\* raw_y = (n_tiles / aspect).sqrt().round(), aspect = nx / ny.
RawY(n_tiles, nx, ny) == RoundSqrt(n_tiles * ny, nx)

Frac(n, d) == [num |-> n, den |-> d]

FracLess(a, b) == a.num * b.den < b.num * a.den

\* next_error: raw_y / factor, inverted when below 1.0.
NextError(raw_y, factor) ==
    IF raw_y < factor THEN Frac(factor, raw_y) ELSE Frac(raw_y, factor)

\* "Worst possible error": the starting value of best_error.
InitialBestError(n_tiles) == Frac(n_tiles, 1)

RECURSIVE BestFactorFrom(_, _, _, _, _)
\* The `for factor in math::factors(n_tiles)` loop from position i on.
BestFactorFrom(fs, i, raw_y, best_factor, best_error) ==
    IF i > Len(fs) THEN best_factor
    ELSE LET next_error == NextError(raw_y, fs[i])
         IN  IF FracLess(next_error, best_error)
             THEN BestFactorFrom(fs, i + 1, raw_y, fs[i], next_error)
             ELSE BestFactorFrom(fs, i + 1, raw_y, best_factor, best_error)

\* A slip that keeps the rounded ideal instead of a factor of the tile count.
BestFactorIdeal(n_tiles, raw_y) == IF raw_y = 0 THEN 1 ELSE raw_y

BestFactor(n_tiles, raw_y) ==
    BestFactorFrom(factors(n_tiles), 1, raw_y, 1, InitialBestError(n_tiles))

\* The function's result, and whether its assert_eq! (n_tiles / y == x in f64)
\* passes.
pick_tiling_dimensions(n_tiles, nx, ny) ==
    LET y == BestFactor(n_tiles, RawY(n_tiles, nx, ny))
        x == n_tiles \div y
    IN  [x |-> x, y |-> y, exact |-> (x * y = n_tiles)]

(***************************************************************************)
(* Images.  An image::RgbImage is its width, its height and the pixels     *)
(* written so far; RgbImage::new zero-fills, so every other pixel reads 0. *)
(* One intensity stands for the three channels, which the code treats      *)
(* alike.                                                                  *)
(***************************************************************************)
NewImage(w, h) == [width |-> w, height |-> h, data |-> << >>]

GetPixel(img, x, y) ==
    IF <<x, y>> \in DOMAIN img.data THEN img.data[<<x, y>>] ELSE 0

PutPixel(img, x, y, v) ==
    [img EXCEPT !.data =
        [p \in (DOMAIN img.data) \cup {<<x, y>>} |->
            IF p = <<x, y>> THEN v ELSE img.data[p]]]

\* The coordinates copy_from writes when `src` is placed at (x, y).
Region(x, y, w, h) == (x .. x + w - 1) \X (y .. y + h - 1)

\* A slip that takes the bounds as strict.
CopyFitsStrict(dst, src, x, y) ==
    /\ dst.width > src.width + x
    /\ dst.height > src.height + y

\* GenericImage::copy_from: refuses (returns false) when `src` placed at (x, y)
\* does not fit in `dst`, else copies every pixel of `src`.
CopyFits(dst, src, x, y) ==
    /\ dst.width >= src.width + x
    /\ dst.height >= src.height + y

CopyFrom(dst, src, x, y) ==
    LET R == Region(x, y, src.width, src.height)
    IN  [dst EXCEPT !.data =
            [p \in (DOMAIN dst.data) \cup R |->
                IF p \in R THEN GetPixel(src, p[1] - x, p[2] - y)
                ELSE dst.data[p]]]

\* rgb /= ns; rgb = rgb.sqrt(); rgb *= 255.99; rgb.x as u8 -- the greatest
\* p in 0..255 with p <= 255.99 * sqrt(sum / ns), in hundredths.
GammaU8(sum, ns) ==
    LET Fits(p) == (100 * p) * (100 * p) * ns <= 25599 * 25599 * sum
    IN  CHOOSE p \in 0..255 : Fits(p) /\ (p = 255 \/ ~ Fits(p + 1))

(***************************************************************************)
(* Tiles -- write_image, lines 267-297.                                    *)
(***************************************************************************)
\* A slip that takes the remainder for the row as well as for the column.
TileCoordsSwapped(tile_id, tx) ==
    [x |-> tile_id % tx, y |-> tile_id % tx]

\* let x = tile_id % tiles_x; let y = tile_id / tiles_x;
TileCoords(tile_id, tx) ==
    [x |-> tile_id % tx, y |-> tile_id \div tx]

MakeTile(tile_id, tx, tile_nx, tile_ny) ==
    LET c == TileCoords(tile_id, tx)
    IN  [tile_id  |-> tile_id,
         tile_x   |-> c.x,
         tile_y   |-> c.y,
         offset_x |-> c.x * tile_nx,
         offset_y |-> c.y * tile_ny,
         pixels   |-> NewImage(tile_nx, tile_ny),
         progress |-> [total    |-> U64Mul(U64Of(tile_nx), U64Of(tile_ny)),
                       count    |-> 0,
                       finished |-> FALSE]]

\* if opt.checkerboard_tiles { if x % 2 != y % 2 { continue; } }
Skipped(tile_id, tx, checkerboard) ==
    LET c == TileCoords(tile_id, tx)
    IN  checkerboard /\ (c.x % 2 # c.y % 2)

RECURSIVE MakeTiles(_, _, _, _, _, _)
\* The `for tile_id in 0..(tiles_x * tiles_y)` loop from tile_id on.
MakeTiles(tile_id, tx, ty, tile_nx, tile_ny, checkerboard) ==
    IF tile_id >= tx * ty THEN << >>
    ELSE (IF Skipped(tile_id, tx, checkerboard) THEN << >>
          ELSE <<MakeTile(tile_id, tx, tile_nx, tile_ny)>>)
         \o MakeTiles(tile_id + 1, tx, ty, tile_nx, tile_ny, checkerboard)

RECURSIVE PbCountFrom(_, _)
\* tiles.iter().map(|t| t.progress.total).sum()
PbCountFrom(ts, i) ==
    IF i > Len(ts) THEN U64Zero
    ELSE U64Add(ts[i].progress.total, PbCountFrom(ts, i + 1))

PbCount(ts) == PbCountFrom(ts, 1)

\* (nx * ny) as u64: the product is taken in u32.
PxProduct(nx, ny) == U64Mul(U64Of(nx), U64Of(ny))

PxCount(nx, ny) == WrapU32(PxProduct(nx, ny))

(***************************************************************************)
(* State.                                                                  *)
(***************************************************************************)
VARIABLES
    opt,           \* the command-line options write_image reads
    pc,            \* where the main thread is
    panic,         \* the message the process died with, "" while it lives
    tiles_x,       \* write_image's tiles_x (0 before it is computed)
    tiles_y,       \* write_image's tiles_y
    tiles,         \* write_image's Vec<Tile>
    task,          \* per tile, where its rayon task is in the for_each closure
    NEED_TO_EXIT,  \* the static AtomicBool
    listener,      \* the h_listener thread
    imgbuf,        \* the final image, once allocated
    next_tile,     \* position of the `for tile in tiles` copy loop
    copied,        \* history: how often copy_from wrote each final pixel
    rendered,      \* history: the value computed for each image pixel
    polls,         \* history: per tile, the calls of needs_to_exit()
    late,          \* history: per tile, pixels written after the flag was set
    run,           \* which execution of the program this is
    first_image,   \* the image the first execution returned
    frames,        \* the active invocations of color(), outermost first
    color_ret,     \* what the invocation that just returned handed back
    call,          \* the function application under examination, if any
    ret            \* what that application returned

vars == <<opt, pc, panic, tiles_x, tiles_y, tiles, task, NEED_TO_EXIT, listener,
          imgbuf, next_tile, copied, rendered, polls, late, run, first_image,
          frames, color_ret, call, ret>>

\* The variables of the specifications that apply one function of the
\* geometry, material or math modules to an input.
unitVars == <<call, ret>>

renderVars == <<panic, tiles, task, NEED_TO_EXIT, listener, imgbuf, next_tile,
                copied, rendered, polls, late, run, first_image>>

Opt(n, w, h, ns, jobs, cb) ==
    [tiles |-> n, width |-> w, height |-> h, samples_per_pixel |-> ns,
     jobs |-> jobs, checkerboard_tiles |-> cb]

\* #[structopt(default_value="2", ..)] samples_per_pixel
DefaultSamples == 2

NoImage == NewImage(0, 0)

\* No function application is under examination.
NoCall == [fn |-> "none"]

\* The state of a process that has not entered write_image.
Fresh ==
    /\ pc = "start"
    /\ panic = ""
    /\ tiles_x = 0
    /\ tiles_y = 0
    /\ tiles = << >>
    /\ task = << >>
    /\ NEED_TO_EXIT = FALSE
    /\ listener = "none"
    /\ imgbuf = NoImage
    /\ next_tile = 0
    /\ copied = << >>
    /\ rendered = << >>
    /\ polls = << >>
    /\ late = << >>

(***************************************************************************)
(* SpecTiling: pick_tiling_dimensions on every input of the bounded set.   *)
(***************************************************************************)
\* A side whose square is 2^32.
BigDim == 2 ^ 16

TilingDims == (1..MaxDim) \cup {BigDim}

InitTiling ==
    /\ opt \in {Opt(n, w, h, DefaultSamples, Threads, FALSE) :
                   n \in 0..MaxTileCount, w \in TilingDims, h \in TilingDims}
    /\ Fresh
    /\ run = 1
    /\ first_image = NoImage
    /\ frames = << >>
    /\ color_ret = "none"
    /\ call = NoCall
    /\ ret = NoCall

\* let (tiles_x, tiles_y) = pick_tiling_dimensions(opt.tiles, nx, ny);
PickTiling ==
    /\ pc = "start"
    /\ LET r == pick_tiling_dimensions(opt.tiles, opt.width, opt.height)
       IN  /\ tiles_x' = r.x
           /\ tiles_y' = r.y
           /\ pc' = IF r.exact THEN "picked" ELSE "panic"
    /\ UNCHANGED <<opt, renderVars, frames, color_ret, unitVars>>

NextTiling == PickTiling

SpecTiling == InitTiling /\ [][NextTiling]_vars

Divisors(n) == {d \in 1..n : n % d = 0}

\* C1: for every tile count N >= 1 and image W x H, pick_tiling_dimensions
\* returns (x, y) with y a divisor of N and x * y = N, and its exactness
\* assertion never fails.
C1_GridFactorsTileCount ==
    /\ pc # "panic"
    /\ (pc = "picked" /\ opt.tiles >= 1) =>
          /\ tiles_y \in Divisors(opt.tiles)
          /\ tiles_x * tiles_y = opt.tiles

C1_Witness ==
    /\ pc = "picked"
    /\ tiles_x > 1
    /\ tiles_y > 1
    /\ RawY(opt.tiles, opt.width, opt.height) \notin Divisors(opt.tiles)

\* C2: the returned y has the least symmetric ratio error against y_ideal
\* among all factors of N: no factor of N has a strictly smaller error.
C2_ChosenFactorMinimisesError ==
    (pc = "picked" /\ opt.tiles >= 1) =>
        LET raw_y == RawY(opt.tiles, opt.width, opt.height)
        IN  \A f \in Divisors(opt.tiles) :
                ~ FracLess(NextError(raw_y, f), NextError(raw_y, tiles_y))


(***************************************************************************)
(* Spec: write_image -- src/src/main.rs, lines 236-406.                    *)
(***************************************************************************)
\* Every small configuration, and one image of 2^16 x 2^16 pixels in a single
\* tile, whose fate the prologue decides.
RenderInputs ==
    {o \in {Opt(n, w, h, DefaultSamples, Threads, cb) :
                n \in 0..MaxPixels, w \in 1..MaxPixels, h \in 1..MaxPixels,
                cb \in BOOLEAN} :
        o.width * o.height <= MaxPixels}
    \cup {Opt(1, BigDim, BigDim, DefaultSamples, Threads, FALSE)}

Init ==
    /\ opt \in RenderInputs
    /\ Fresh
    /\ run = 1
    /\ first_image = NoImage
    /\ frames = << >>
    /\ color_ret = "none"
    /\ call = NoCall
    /\ ret = NoCall

Tiles == 1..Len(tiles)

\* The colours color() can return for a sample, as intensities in [0, 1]: the
\* draw depends on rand::random(), which no option seeds.
SampleColours == {0, 1}

\* The main thread dies with `msg`; nothing of write_image's frame survives.
Die(msg) ==
    /\ pc' = "panic"
    /\ panic' = msg

\* A slip that checks the width only.
GridPanicWidthOnly(nx, ny, tx, ty) ==
    IF tx = 0 \/ ty = 0 THEN "remainder by zero"
    ELSE IF nx % tx # 0 THEN "I'll solve this later"
    ELSE ""

\* assert_eq!(nx % tiles_x, 0, ..); assert_eq!(ny % tiles_y, 0, ..);
\* the remainder itself panics when the divisor is zero.
GridPanic(nx, ny, tx, ty) ==
    IF tx = 0 THEN "remainder by zero"
    ELSE IF nx % tx # 0 THEN "I'll solve this later"
    ELSE IF ty = 0 THEN "remainder by zero"
    ELSE IF ny % ty # 0 THEN "I'll solve this later"
    ELSE ""

\* Lines 236-321: everything write_image does before the parallel phase.
Prologue ==
    /\ pc = "start"
    /\ LET nx == opt.width
           ny == opt.height
           grid == pick_tiling_dimensions(opt.tiles, nx, ny)
           bad == GridPanic(nx, ny, grid.x, grid.y)
       IN  /\ tiles_x' = grid.x
           /\ tiles_y' = grid.y
           /\ IF ~ grid.exact
              THEN /\ Die("Tile size calculation should be exact, integer math!")
                   /\ UNCHANGED <<tiles, task, listener, polls, late>>
              ELSE IF bad # ""
              THEN /\ Die(bad)
                   /\ UNCHANGED <<tiles, task, listener, polls, late>>
              ELSE LET ts == MakeTiles(0, grid.x, grid.y, nx \div grid.x,
                                       ny \div grid.y, opt.checkerboard_tiles)
                       wraps == ~ FitsU32(PxProduct(nx, ny))
                       agree == PbCount(ts) = PxCount(nx, ny)
                   IN  /\ tiles' = ts
                       /\ IF opt.checkerboard_tiles \/ (~ wraps /\ agree)
                          THEN /\ pc' = "render"
                               /\ panic' = ""
                               /\ task' = [t \in 1..Len(ts) |->
                                              [at |-> "queued", cursor |-> 0,
                                               samples |-> << >>,
                                               x |-> 0, y |-> 0,
                                               underflow |-> FALSE]]
                               /\ listener' = "listening"
                               /\ polls' = [t \in 1..Len(ts) |-> 0]
                               /\ late' = [t \in 1..Len(ts) |-> 0]
                          ELSE \* nx * ny left u32: a debug build panics on the
                               \* multiplication, a release build wraps and
                               \* then fails the comparison.
                               /\ \/ wraps /\ Die("attempt to multiply with overflow")
                                  \/ ~ agree /\ Die("The progress bars don't agree on how many pixels there are!")
                               /\ UNCHANGED <<task, listener, polls, late>>
    /\ UNCHANGED <<opt, NEED_TO_EXIT, imgbuf, next_tile, copied, rendered,
                   run, first_image, frames, color_ret, unitVars>>

\* signal_exit(): the Ctrl+C handler, installed before write_image is called.
SignalExit ==
    /\ pc \in {"start", "render", "join", "assemble"}
    /\ ~ NEED_TO_EXIT
    /\ NEED_TO_EXIT' = TRUE
    /\ UNCHANGED <<opt, pc, panic, tiles_x, tiles_y, tiles, task, listener,
                   imgbuf, next_tile, copied, rendered, polls, late, run,
                   first_image, frames, color_ret, unitVars>>

Running == {t \in Tiles : task[t].at = "loop"}

\* A pool thread takes a tile of tiles.par_iter_mut() and enters the closure.
TaskStart(t) ==
    /\ pc = "render"
    /\ task[t].at = "queued"
    /\ Cardinality(Running) < opt.jobs
    /\ task' = [task EXCEPT ![t].at = "loop"]
    /\ UNCHANGED <<opt, pc, panic, tiles_x, tiles_y, tiles, NEED_TO_EXIT,
                   listener, imgbuf, next_tile, copied, rendered, polls, late,
                   run, first_image, frames, color_ret, unitVars>>

PixelTotal(t) == tiles[t].pixels.width * tiles[t].pixels.height

\* A slip that hands a task its neighbour's tile.
TileOfNext(t) == IF t < Len(tiles) THEN t + 1 ELSE 1

\* |tile: &mut Tile|: the one tile par_iter_mut() lends to the closure that
\* runs as task t; `tile.pixels` and `tile.progress` are reached through it.
TileOf(t) == t

\* for sample in 1..(ns+1)
SampleRange(ns) == 1..ns

\* A slip that walks the buffer column by column.
PixelAtByColumn(image, cursor) ==
    <<cursor \div image.height, cursor % image.height>>

\* enumerate_pixels_mut(): the (x, y) of the cursor-th pixel it yields, row
\* by row.
PixelAt(image, cursor) == <<cursor % image.width, cursor \div image.width>>

\* let y = ny - (y + tile.offset_y) + 1, in u32: the subtraction underflows
\* when its right operand is the greater.
FlippedRow(ny, y, offset_y) ==
    [underflow |-> ny < y + offset_y, value |-> ny - (y + offset_y) + 1]

\* A slip that keeps rendering whatever the flag says.
LeavesLoopIgnoringFlag(flag, cursor, total) == cursor = total

\* Whether the pass that has just counted pixel number `cursor` is the tile's
\* last: needs_to_exit() breaks out of 'per_pixel, or the iterator ran out.
LeavesLoop(flag, cursor, total) == flag \/ cursor = total

\* Lines 326-374: one pass of the 'per_pixel loop -- the samples, the pixel
\* write, progress.inc(), the poll of the flag -- and, after the last pass,
\* progress.finish().  The buffer and the bar belong to this tile alone, so
\* no other thread can tell the pass from its parts; the flag is read as it
\* was when the pass began.  enumerate_pixels_mut yields the pixels row by row.
TaskPixel(t) ==
    /\ pc = "render"
    /\ task[t].at = "loop"
    /\ \E sum \in 0..opt.samples_per_pixel :
          \* `sum` is the total of ns draws from SampleColours
          LET px == PixelAt(tiles[t].pixels, task[t].cursor)[1]
              py == PixelAt(tiles[t].pixels, task[t].cursor)[2]
              flipped == FlippedRow(opt.height, py, tiles[t].offset_y)
              v  == GammaU8(sum, opt.samples_per_pixel)
              leaves == LeavesLoop(NEED_TO_EXIT, task[t].cursor + 1, PixelTotal(t))
          IN  /\ tiles' = [tiles EXCEPT
                              ![TileOf(t)].pixels = PutPixel(@, px, py, v),
                              ![TileOf(t)].progress.count = @ + 1,
                              ![TileOf(t)].progress.finished = leaves]
              /\ rendered' =
                    LET g == <<px + tiles[t].offset_x, py + tiles[t].offset_y>>
                    IN  [p \in (DOMAIN rendered) \cup {g} |->
                            IF p = g THEN v ELSE rendered[p]]
              /\ task' = [task EXCEPT
                             ![t].at = IF leaves THEN "done" ELSE "loop",
                             ![t].cursor = @ + 1,
                             ![t].samples = Append(@,
                                 Cardinality(SampleRange(opt.samples_per_pixel))),
                             ![t].x = px + tiles[t].offset_x,
                             ![t].y = flipped.value,
                             ![t].underflow = flipped.underflow]
    /\ polls' = [polls EXCEPT ![t] = @ + 1]
    /\ late' = [late EXCEPT ![t] = IF NEED_TO_EXIT THEN @ + 1 ELSE @]
    /\ UNCHANGED <<opt, pc, panic, tiles_x, tiles_y, NEED_TO_EXIT, listener,
                   imgbuf, next_tile, copied, run, first_image, frames, color_ret, unitVars>>

\* A slip that waits for a bar of every cell of the grid, skipped or not.
AllBarsFinishedOfGrid ==
    /\ Len(tiles) = tiles_x * tiles_y
    /\ \A t \in Tiles : tiles[t].progress.finished

\* Every bar made by create_bar -- one per tile pushed, none for a tile the
\* checkerboard skipped -- has been finished.
AllBarsFinished == \A t \in Tiles : tiles[t].progress.finished

\* Line 320: multi_progress.listen() returns once every bar is finished.
ListenerEnd ==
    /\ listener = "listening"
    /\ AllBarsFinished
    /\ listener' = "ended"
    /\ UNCHANGED <<opt, pc, panic, tiles_x, tiles_y, tiles, task, NEED_TO_EXIT,
                   imgbuf, next_tile, copied, rendered, polls, late, run,
                   first_image, frames, color_ret, unitVars>>

\* A slip that lets for_each return as soon as one task is done.
AllJoinedAny == Tiles = {} \/ \E t \in Tiles : task[t].at = "done"

\* for_each returns when every tile's closure has returned.
AllJoined == \A t \in Tiles : task[t].at = "done"

\* Lines 324-376: the parallel phase ends.
ParallelDone ==
    /\ pc = "render"
    /\ AllJoined
    /\ pc' = "join"
    /\ UNCHANGED <<opt, panic, tiles_x, tiles_y, tiles, task, NEED_TO_EXIT,
                   listener, imgbuf, next_tile, copied, rendered, polls, late,
                   run, first_image, frames, color_ret, unitVars>>

\* Lines 378-393: h_listener.join(), then the final image is allocated.
JoinListener ==
    /\ pc = "join"
    /\ listener = "ended"
    /\ pc' = "assemble"
    /\ imgbuf' = NewImage(opt.width, opt.height)
    /\ next_tile' = 1
    /\ copied' = [p \in Region(0, 0, opt.width, opt.height) |-> 0]
    /\ UNCHANGED <<opt, panic, tiles_x, tiles_y, tiles, task, NEED_TO_EXIT,
                   listener, rendered, polls, late, run, first_image, frames, color_ret, unitVars>>

\* Lines 394-403: one pass of `for tile in tiles`.
CopyTile ==
    /\ pc = "assemble"
    /\ next_tile <= Len(tiles)
    /\ LET tile == tiles[next_tile]
       IN  IF CopyFits(imgbuf, tile.pixels, tile.offset_x, tile.offset_y)
           THEN /\ imgbuf' = CopyFrom(imgbuf, tile.pixels, tile.offset_x,
                                      tile.offset_y)
                /\ copied' =
                      LET R == Region(tile.offset_x, tile.offset_y,
                                      tile.pixels.width, tile.pixels.height)
                      IN  [p \in DOMAIN copied |->
                              IF p \in R THEN copied[p] + 1 ELSE copied[p]]
                /\ next_tile' = next_tile + 1
                /\ UNCHANGED <<pc, panic>>
           ELSE /\ Die("imgbuf::copy_from() failed.")
                /\ UNCHANGED <<imgbuf, copied, next_tile>>
    /\ UNCHANGED <<opt, tiles_x, tiles_y, tiles, task, NEED_TO_EXIT, listener,
                   rendered, polls, late, run, first_image, frames, color_ret, unitVars>>

\* Line 405: write_image returns imgbuf.
Return ==
    /\ pc = "assemble"
    /\ next_tile > Len(tiles)
    /\ pc' = "done"
    /\ UNCHANGED <<opt, panic, tiles_x, tiles_y, tiles, task, NEED_TO_EXIT,
                   listener, imgbuf, next_tile, copied, rendered, polls, late,
                   run, first_image, frames, color_ret, unitVars>>

Next ==
    \/ Prologue
    \/ SignalExit
    \/ \E t \in Tiles : TaskStart(t)
    \/ \E t \in Tiles : TaskPixel(t)
    \/ ListenerEnd
    \/ ParallelDone
    \/ JoinListener
    \/ CopyTile
    \/ Return

Spec == Init /\ [][Next]_vars

\* A second execution of the program with the same options, after a first
\* one that nobody interrupted: a new process, whose flag starts cleared.  The
\* first image is kept for comparison.
RunAgain ==
    /\ pc = "done"
    /\ run = 1
    /\ ~ NEED_TO_EXIT
    /\ run' = 2
    /\ first_image' = imgbuf
    /\ pc' = "start"
    /\ panic' = ""
    /\ tiles_x' = 0
    /\ tiles_y' = 0
    /\ tiles' = << >>
    /\ task' = << >>
    /\ NEED_TO_EXIT' = FALSE
    /\ listener' = "none"
    /\ imgbuf' = NoImage
    /\ next_tile' = 0
    /\ copied' = << >>
    /\ rendered' = << >>
    /\ polls' = << >>
    /\ late' = << >>
    /\ UNCHANGED <<opt, frames, color_ret, unitVars>>

NextTwice == Next \/ RunAgain

\* Two executions are compared on the images of at most MaxPixelsTwice pixels.
InitTwice ==
    /\ Init
    /\ opt.width <= MaxPixelsTwice
    /\ opt.height <= MaxPixelsTwice
    /\ opt.width * opt.height <= MaxPixelsTwice

SpecTwice == InitTwice /\ [][NextTwice]_vars

(***************************************************************************)
(* SpecColor: color(ray, world, 0) -- src/src/main.rs, lines 408-435.      *)
(* What world.hit and the material's scatter return depends on the scene   *)
(* and the ray; each outcome is a choice of the step.  Colours are counted  *)
(* in twentieths (1.0 is 20); attenuations have components 0, 1 and -1, so *)
(* every product is exact.  The attenuation a scattering invocation holds  *)
(* is not read before its callee returns, and is drawn at that step.       *)
(* Float3::abs and the component-wise Float3 * Float3 are called but not   *)
(* defined in float3.rs.                                                   *)
(***************************************************************************)
MAX_RAY_RECURSION == 50

\* The colour (n / d, n / d, n / d), d dividing 20 n.
Grey(n, d) == [x |-> (20 * n) \div d, y |-> (20 * n) \div d, z |-> (20 * n) \div d]

\* Float3::abs
abs(a) ==
    [x |-> IF a.x < 0 THEN - a.x ELSE a.x,
     y |-> IF a.y < 0 THEN - a.y ELSE a.y,
     z |-> IF a.z < 0 THEN - a.z ELSE a.z]

\* A slip that forgets the (1 - t) weight.
lerpSum(t2, a, b) ==
    [x |-> a.x + (t2 * b.x) \div 2,
     y |-> a.y + (t2 * b.y) \div 2,
     z |-> a.z + (t2 * b.z) \div 2]

\* Float3::lerp, for t = t2 / 2.
lerp(t2, a, b) ==
    [x |-> ((2 - t2) * a.x + t2 * b.x) \div 2,
     y |-> ((2 - t2) * a.y + t2 * b.y) \div 2,
     z |-> ((2 - t2) * a.z + t2 * b.z) \div 2]

\* The sky for a ray whose unit direction has y = unit_y, in -1..1:
\* t = 0.5 * (1.0 + unit_y), blended between white and blue.
Sky(unit_y) ==
    LET white == Grey(1, 1)
        blue  == [x |-> 10, y |-> 14, z |-> 20]
    IN  lerp(1 + unit_y, white, blue)

\* The marker colour (1, 0, 1).
Marker == [x |-> 20, y |-> 0, z |-> 20]

\* The attenuation of a scatter that returned true: the albedo of a
\* Lambertian or a Metal, or the (1, 1, 1) of a Dielectric.
ScatterAttenuations == {[x |-> 1, y |-> 1, z |-> 1], [x |-> 1, y |-> 0, z |-> 1]}

\* The attenuation of a scatter that returned false: the albedo of a Metal,
\* or the unit normal NormalToRgb writes.
AbsorbAttenuations ==
    {[x |-> 1, y |-> 0, z |-> 1], [x |-> 0, y |-> - 1, z |-> 0]}

\* attenuation * colour, component by component.
Attenuate(attenuation, colour) ==
    [x |-> attenuation.x * colour.x,
     y |-> attenuation.y * colour.y,
     z |-> attenuation.z * colour.z]

Top == frames[Len(frames)]

\* The top invocation is at its first line (no callee has returned to it).
Entered == frames # << >> /\ color_ret = "none"

\* The invocation at the top returns `value` to its caller.
ReturnValue(value, rgb) ==
    /\ frames' = SubSeq(frames, 1, Len(frames) - 1)
    /\ color_ret' = value
    /\ ret' = [fn |-> "color", value |-> rgb]

\* The invocation at the top returns `rgb`, computed from the attenuation
\* its material's scatter wrote.
ReturnWritten(value, rgb, attenuation) ==
    /\ frames' = SubSeq(frames, 1, Len(frames) - 1)
    /\ color_ret' = value
    /\ ret' = [fn |-> "color", value |-> rgb, attenuation |-> attenuation]

\* A slip that admits one bounce too many.
MayScatterInclusive(depth) == depth <= MAX_RAY_RECURSION

\* depth < MAX_RAY_RECURSION, the guard before material.scatter is called.
MayScatter(depth) == depth < MAX_RAY_RECURSION

\* A slip that puts the marker one level too early.
AtBudgetEarly(depth) == depth = MAX_RAY_RECURSION - 1

\* depth == MAX_RAY_RECURSION, the test of the `else if`.
AtBudget(depth) == depth = MAX_RAY_RECURSION

\* world.hit returns None: the sky gradient.
ColorMiss ==
    /\ Entered
    /\ \E unit_y \in (- 1)..1 : ReturnValue("sky", Sky(unit_y))
    /\ UNCHANGED <<opt, pc, tiles_x, tiles_y, renderVars, call>>

\* A hit whose material scatters: color(&scattered, world, depth + 1).
ColorScatter ==
    /\ Entered
    /\ MayScatter(Top)
    /\ frames' = Append(frames, Top + 1)
    /\ UNCHANGED <<opt, pc, tiles_x, tiles_y, renderVars, color_ret, unitVars>>

\* A hit that does not recurse, at depth == MAX_RAY_RECURSION: the marker
\* colour.
ColorMarker ==
    /\ Entered
    /\ AtBudget(Top)
    /\ ReturnValue("marker", Marker)
    /\ UNCHANGED <<opt, pc, tiles_x, tiles_y, renderVars, call>>

\* A hit that does not recurse, at any other depth: attenuation.abs().
ColorAbsorb ==
    /\ Entered
    /\ ~ AtBudget(Top)
    /\ \E attenuation \in AbsorbAttenuations :
          ReturnWritten("attenuation",
                        Attenuate(abs(attenuation), Grey(1, 1)), attenuation)
    /\ UNCHANGED <<opt, pc, tiles_x, tiles_y, renderVars, call>>

\* The callee has returned: attenuation * color(..) is returned in turn.
ColorUnwind ==
    /\ frames # << >>
    /\ color_ret # "none"
    /\ \E attenuation \in ScatterAttenuations :
          ReturnValue("product", Attenuate(attenuation, ret.value))
    /\ UNCHANGED <<opt, pc, tiles_x, tiles_y, renderVars, call>>

InitColor ==
    /\ opt = Opt(1, 1, 1, DefaultSamples, Threads, FALSE)
    /\ Fresh
    /\ run = 1
    /\ first_image = NoImage
    /\ frames = <<0>>
    /\ color_ret = "none"
    /\ call = NoCall
    /\ ret = NoCall

NextColor ==
    \/ ColorMiss
    \/ ColorScatter
    \/ ColorMarker
    \/ ColorAbsorb
    \/ ColorUnwind

SpecColor == InitColor /\ [][NextColor]_vars

\* color runs on one thread, which keeps taking its next step.
SpecColorFair == SpecColor /\ WF_vars(NextColor)

(***************************************************************************)
(* Claims about write_image.                                               *)
(***************************************************************************)
Image == Region(0, 0, opt.width, opt.height)

\* The grid divides the image exactly.
Divisible ==
    /\ tiles_x > 0
    /\ tiles_y > 0
    /\ opt.width % tiles_x = 0
    /\ opt.height % tiles_y = 0

TileRect(t) ==
    Region(tiles[t].offset_x, tiles[t].offset_y,
           tiles[t].pixels.width, tiles[t].pixels.height)

\* What the returned image must hold at p: the value its tile's task computed,
\* or the zero of a pixel no task reached.
Expected(p) == IF p \in DOMAIN rendered THEN rendered[p] ELSE 0

\* C3: when the grid divides the image and checkerboard skipping is off, the
\* tile rectangles are pairwise disjoint, lie inside the image and cover it,
\* no copy is refused, and after assembly every pixel of the final image has
\* been copied from exactly one tile.
C3_TilesPartitionImage ==
    (Divisible /\ ~ opt.checkerboard_tiles /\ pc \in {"render", "join", "assemble", "done"}) =>
        /\ \A t \in Tiles : TileRect(t) \subseteq Image
        /\ \A t, u \in Tiles : t # u => TileRect(t) \cap TileRect(u) = {}
        /\ UNION {TileRect(t) : t \in Tiles} = Image
        /\ pc = "done" => \A p \in Image : copied[p] = 1

C3_Witness ==
    /\ pc = "done"
    /\ ~ opt.checkerboard_tiles
    /\ tiles_x > 1
    /\ tiles_y > 1
    /\ \A p \in Image : copied[p] = 1

\* C4: when the grid divides the image and checkerboard skipping is off, the
\* tile pixel counts sum to W * H, so the progress-bar sanity assertion of
\* write_image holds.
C4_ProgressBarsAgree ==
    (Divisible /\ ~ opt.checkerboard_tiles /\ pc # "start") =>
        /\ PbCount(tiles) = PxProduct(opt.width, opt.height)
        /\ panic \notin {"attempt to multiply with overflow",
                         "The progress bars don't agree on how many pixels there are!"}

\* C5: a grid that does not divide the image exactly stops write_image with
\* the configuration error before any tile is created or any pixel rendered,
\* and no image is returned.
C5_BadGridIsFatal ==
    (/\ pc # "start"
     /\ tiles_x > 0
     /\ tiles_y > 0
     /\ (opt.width % tiles_x # 0 \/ opt.height % tiles_y # 0)) =>
        /\ pc = "panic"
        /\ panic = "I'll solve this later"
        /\ tiles = << >>
        /\ task = << >>
        /\ rendered = << >>
        /\ imgbuf = NoImage

C5_Witness ==
    /\ pc = "panic"
    /\ tiles_x > 0
    /\ tiles_y > 0
    /\ opt.width % tiles_x = 0
    /\ opt.height % tiles_y # 0

\* C6: a tile task reads the flag once per pixel, after the pixel is written
\* and counted; once the flag is set a task writes at most one more pixel,
\* then leaves the loop and finishes its progress without an error.
C6_FlagPolledOncePerPixel ==
    \A t \in DOMAIN task :
        /\ tiles[t].progress.count = task[t].cursor
        /\ polls[t] = tiles[t].progress.count
        /\ late[t] <= 1
        /\ late[t] = 1 => task[t].at = "done"
        /\ task[t].at = "done" =>
              /\ tiles[t].progress.finished
              /\ (task[t].cursor < PixelTotal(t) => NEED_TO_EXIT)
        /\ task[t].at # "done" => ~ tiles[t].progress.finished
        /\ panic = ""

C6_Witness ==
    /\ \E t, u \in DOMAIN task :
          /\ t # u
          /\ task[t].at = "done" /\ late[t] = 1 /\ polls[t] = 1
          /\ task[u].at = "done" /\ late[u] = 1 /\ polls[u] = 1
          /\ task[t].cursor < PixelTotal(t)
          /\ task[u].cursor < PixelTotal(u)
          /\ tiles[t].progress.finished /\ tiles[u].progress.finished

\* A step of write_image or of one of its threads, the signal handler apart.
Advance ==
    \/ \E t \in Tiles : TaskStart(t) \/ TaskPixel(t)
    \/ ListenerEnd
    \/ ParallelDone
    \/ JoinListener
    \/ CopyTile
    \/ Return

\* C7: cancellation is not an error: with the flag set during the parallel
\* phase write_image still joins every task, passes every copy assertion and
\* returns a W x H image whose pixels are each the value its tile rendered or
\* the initial zero.
C7_CancellationIsNotAnError ==
    (NEED_TO_EXIT /\ task # << >>) =>
        /\ panic = ""
        /\ pc \in {"render", "join", "assemble"} => ENABLED Advance
        /\ pc \in {"join", "assemble", "done"} =>
              \A t \in Tiles : task[t].at = "done"
        /\ pc = "done" =>
              /\ imgbuf.width = opt.width
              /\ imgbuf.height = opt.height
              /\ DOMAIN imgbuf.data \subseteq Image
              /\ \A p \in Image : GetPixel(imgbuf, p[1], p[2]) = Expected(p)

C7_Witness ==
    /\ pc = "done"
    /\ NEED_TO_EXIT
    /\ \E t \in Tiles : late[t] = 1
    /\ \E p \in Image : p \notin DOMAIN rendered
    /\ \E p \in Image : p \in DOMAIN rendered /\ GetPixel(imgbuf, p[1], p[2]) # 0

\* C8: no tile buffer is copied into the final image before every tile task
\* has finished, so the assembled image depends on the colours computed for
\* the pixels alone, not on the order in which the tasks ran or completed.
C8_AssemblyAfterAllTasks ==
    /\ (pc \in {"join", "assemble", "done"} \/ next_tile > 0 \/ imgbuf # NoImage) =>
          \A t \in Tiles : task[t].at = "done" /\ tiles[t].progress.finished
    /\ pc = "done" =>
          \A t \in Tiles : \A p \in TileRect(t) :
              /\ GetPixel(imgbuf, p[1], p[2]) = Expected(p)
              /\ GetPixel(imgbuf, p[1], p[2]) =
                    GetPixel(tiles[t].pixels, p[1] - tiles[t].offset_x,
                             p[2] - tiles[t].offset_y)

C8_Witness ==
    /\ pc = "done"
    /\ opt.jobs > 1
    /\ Len(tiles) > 1
    /\ ~ NEED_TO_EXIT
    /\ \E p, q \in Image : rendered[p] # rendered[q]

\* C9: rendering twice with the same scene, camera, seed and thread count
\* yields byte-identical images.
C9_SameInputsSameImage ==
    (run = 2 /\ pc = "done" /\ ~ NEED_TO_EXIT) => imgbuf = first_image

(***************************************************************************)
(* Claims about color.                                                     *)
(***************************************************************************)
\* Every active invocation was called with its caller's depth plus one, from
\* 0; none has a depth above MAX_RAY_RECURSION, so at most 51 are nested.
DepthBounded ==
    /\ \A i \in 1..Len(frames) : frames[i] = i - 1
    /\ \A i \in 1..Len(frames) : frames[i] <= MAX_RAY_RECURSION
    /\ Len(frames) <= MAX_RAY_RECURSION + 1

\* C10: color(ray, scene, 0) terminates: each recursive call passes depth + 1,
\* depth never exceeds MAX_RAY_RECURSION (50) and at most 51 invocations are
\* nested, even when every material scatters.
C10_ColorTerminates == [] DepthBounded /\ <> (frames = << >>)

C10_Witness ==
    /\ Len(frames) = MAX_RAY_RECURSION + 1
    /\ Top = MAX_RAY_RECURSION
    /\ color_ret = "none"

\* C11: called with depth == MAX_RAY_RECURSION on a ray that hits, color
\* returns the marker colour without calling scatter and without recursing
\* (and only such a call returns the marker); a ray that hits nothing gets
\* the sky gradient at any depth.
C11_MarkerAtBudget ==
    /\ (Entered /\ Top = MAX_RAY_RECURSION) =>
          /\ ~ MayScatter(Top)   \* `&&` stops before material.scatter
          /\ ~ ENABLED ColorScatter
          /\ ~ ENABLED ColorAbsorb
          /\ ENABLED ColorMarker
    /\ (Entered /\ Top # MAX_RAY_RECURSION) => ~ ENABLED ColorMarker
    /\ Entered => ENABLED ColorMiss
    \* the invocation that has just returned had depth Len(frames)
    /\ color_ret = "marker" => Len(frames) = MAX_RAY_RECURSION
    /\ color_ret \in {"attenuation", "product"} => Len(frames) < MAX_RAY_RECURSION

C11_Witness ==
    /\ color_ret = "marker"
    /\ Len(frames) = MAX_RAY_RECURSION

(***************************************************************************)
(* Float3 -- src/src/float3.rs.  The vectors of the model have integer     *)
(* components, on which the f64 operations below are exact.                *)
(***************************************************************************)
\* Float3::xyz(x, y, z)
xyz(x, y, z) == [x |-> x, y |-> y, z |-> z]

\* Float3::xxx(x)
xxx(x) == xyz(x, x, x)

\* impl ops::Add<Float3> for Float3
add(a, b) == xyz(a.x + b.x, a.y + b.y, a.z + b.z)

\* impl ops::Sub for Float3
sub(a, b) == xyz(a.x - b.x, a.y - b.y, a.z - b.z)

\* impl ops::Neg for Float3
neg(a) == xyz(- a.x, - a.y, - a.z)

\* impl ops::Mul<Float3> for $prim
mul(k, a) == xyz(k * a.x, k * a.y, k * a.z)

dot(a, b) == (a.x * b.x) + (a.y * b.y) + (a.z * b.z)

length_sq(a) == dot(a, a)

\* A slip that forgets the minus in front of the middle component.
crossUnsigned(v1, v2) ==
    xyz(v1.y * v2.z - v1.z * v2.y,
        v1.x * v2.z - v1.z * v2.x,
        v1.x * v2.y - v1.y * v2.x)

cross(v1, v2) ==
    xyz(v1.y * v2.z - v1.z * v2.y,
        - (v1.x * v2.z - v1.z * v2.x),
        v1.x * v2.y - v1.y * v2.x)

\* The vectors with components in -c..c.
Grid3(c) == {xyz(x, y, z) : x \in (- c)..c, y \in (- c)..c, z \in (- c)..c}

(***************************************************************************)
(* Specifications that apply one function to every input of a bounded set. *)
(* `call` holds the input, `ret` what the function returned for it.        *)
(***************************************************************************)
programVars == <<opt, pc, tiles_x, tiles_y, renderVars, frames, color_ret>>

\* No part of the renderer is running.
Idle ==
    /\ opt = Opt(1, 1, 1, DefaultSamples, Threads, FALSE)
    /\ Fresh
    /\ run = 1
    /\ first_image = NoImage
    /\ frames = << >>
    /\ color_ret = "none"

\* The function named `fn` is applied to the input held in `call`.
Apply(fn, value) ==
    /\ call.fn = fn
    /\ ret = NoCall
    /\ ret' = [fn |-> fn, value |-> value]
    /\ UNCHANGED <<call, programVars>>

(***************************************************************************)
(* SpecCross: Float3::cross -- src/src/float3.rs, lines 113-121.           *)
(***************************************************************************)
InitCross ==
    /\ Idle
    /\ call \in {[fn |-> "cross", a |-> a, b |-> b] :
                    a \in Grid3(MaxCoord), b \in Grid3(MaxCoord)}
    /\ ret = NoCall

ApplyCross == Apply("cross", cross(call.a, call.b))

NextCross == ApplyCross

SpecCross == InitCross /\ [][NextCross]_vars

\* C18: on the integer grid cross(a, b) = -cross(b, a), cross(a, a) is the
\* zero vector, and the basis vectors cross in a cycle, cross(i, j) = k,
\* cross(j, k) = i, cross(k, i) = j, with the sign flipped when the arguments
\* are exchanged.
C18_CrossLaws ==
    ret.fn = "cross" =>
        LET a == call.a
            b == call.b
            i == xyz(1, 0, 0)
            j == xyz(0, 1, 0)
            k == xyz(0, 0, 1)
        IN  /\ ret.value = neg(cross(b, a))
            /\ a = b => ret.value = xxx(0)
            /\ (a = i /\ b = j) => ret.value = k
            /\ (a = j /\ b = k) => ret.value = i
            /\ (a = k /\ b = i) => ret.value = j
            /\ (a = j /\ b = i) => ret.value = neg(k)
            /\ (a = k /\ b = j) => ret.value = neg(i)
            /\ (a = i /\ b = k) => ret.value = neg(j)

C18_Witness ==
    /\ ret.fn = "cross"
    /\ call.a = xyz(0, 0, 1)
    /\ call.b = xyz(1, 0, 0)
    /\ ret.value = xyz(0, 1, 0)

(***************************************************************************)
(* SpecFactors: the iterator math::factors -- src/src/math.rs, lines       *)
(* 54-87, driven until next() returns None.  `call` holds the FactorIter   *)
(* (max, cur), where its consumer stands and what has been yielded.        *)
(***************************************************************************)
InitFactors ==
    /\ Idle
    /\ call \in {[fn |-> "factors", max |-> num, cur |-> 0, at |-> "next",
                  out |-> << >>] : num \in 0..MaxFactorInput}
    /\ ret = NoCall

FactorsRunning == call.fn = "factors" /\ ret = NoCall

\* A slip that lets only the proper divisors end the scan.
DividesProperly(max, cur) == max % cur = 0 /\ cur < max

\* if self.max % self.cur == 0 { break; }
Divides(max, cur) == max % cur = 0

\* if self.cur >= self.max { return None; }
FactorNone ==
    /\ FactorsRunning
    /\ call.at = "next"
    /\ call.cur >= call.max
    /\ ret' = [fn |-> "factors", value |-> call.out, failed |-> FALSE]
    /\ UNCHANGED <<call, programVars>>

\* if self.cur == 0 { self.cur = 1; return Some(1); }
FactorOne ==
    /\ FactorsRunning
    /\ call.at = "next"
    /\ call.cur < call.max
    /\ call.cur = 0
    /\ call' = [call EXCEPT !.cur = 1, !.out = Append(@, 1)]
    /\ UNCHANGED <<ret, programVars>>

\* One pass of the `loop`: self.cur += 1, then the break (and Some(self.cur))
\* or the debug_assert!(self.cur < self.max).
FactorScan ==
    /\ FactorsRunning
    /\ \/ call.at = "loop"
       \/ call.at = "next" /\ call.cur < call.max /\ call.cur # 0
    /\ LET c == call.cur + 1
       IN  IF Divides(call.max, c)
           THEN /\ call' = [call EXCEPT !.cur = c, !.at = "next",
                                        !.out = Append(@, c)]
                /\ UNCHANGED ret
           ELSE IF c < call.max
           THEN /\ call' = [call EXCEPT !.cur = c, !.at = "loop"]
                /\ UNCHANGED ret
           ELSE \* the assertion fails
                /\ ret' = [fn |-> "factors", value |-> call.out, failed |-> TRUE]
                /\ UNCHANGED call
    /\ UNCHANGED programVars

NextFactors ==
    \/ FactorNone
    \/ FactorOne
    \/ FactorScan

SpecFactors == InitFactors /\ [][NextFactors]_vars

\* The consumer keeps calling next() until it gets None.
SpecFactorsFair == SpecFactors /\ WF_vars(NextFactors)

\* What has been yielded so far: the divisors of max up to cur, ascending.
YieldedInOrder ==
    call.fn = "factors" =>
        /\ \A k \in 1..Len(call.out) - 1 : call.out[k] < call.out[k + 1]
        /\ {call.out[k] : k \in 1..Len(call.out)} =
              {d \in 1..call.max : call.max % d = 0 /\ d <= call.cur}
        /\ call.at = "next" =>
              (call.cur = 0 \/ (call.cur <= call.max /\ call.max % call.cur = 0))
        /\ ret # NoCall =>
              /\ ~ ret.failed
              /\ ret.value = call.out
              /\ ret.value = factors(call.max)
              /\ {ret.value[k] : k \in 1..Len(ret.value)} = Divisors(call.max)
              /\ call.max = 0 => ret.value = << >>
              /\ call.max >= 1 =>
                    ret.value[1] = 1 /\ ret.value[Len(ret.value)] = call.max

\* C19: for every n >= 0 the iterator factors(n) terminates and yields
\* exactly the positive divisors of n, each once, in strictly ascending order
\* (1 first and n last when n >= 1); factors(0) yields nothing, and the
\* debug assertion cur < max never fails.
C19_FactorsYieldsDivisors == [] YieldedInOrder /\ <> (ret # NoCall)

C19_Witness ==
    /\ call.fn = "factors"
    /\ call.max = 12
    /\ ret # NoCall
    /\ ret.value = <<1, 2, 3, 4, 6, 12>>

(***************************************************************************)
(* Sphere::hit -- src/src/hitable.rs, lines 35-71.  The inputs have        *)
(* integer coordinates and a discriminant that is negative or a perfect    *)
(* square, so the two roots are the fractions (-b -+ s) / a, which the f64 *)
(* comparisons against the integer bounds order as the fractions are.      *)
(* A vector with fractional components is a numerator vector over one      *)
(* denominator; the bounds t_min and t_max are fractions as well.  A       *)
(* sphere's material stands for the Arc the record shares with it.         *)
(***************************************************************************)
IsSquare(n) == \E r \in 0..n : r * r = n

\* f64::sqrt on a perfect square
sqrt(n) == CHOOSE r \in 0..n : r * r = n

\* let discriminant = b * b - a * c;
Discriminant(sphere, ray) ==
    LET oc == sub(ray.origin, sphere.center)
        a  == length_sq(ray.dir)
        b  == dot(oc, ray.dir)
        c  == length_sq(oc) - sphere.radius * sphere.radius
    IN  b * b - a * c

\* Ray::at_t: self.origin + t * self.dir
at_t(ray, t) ==
    [v |-> add(mul(t.den, ray.origin), mul(t.num, ray.dir)), den |-> t.den]

\* (p - self.center) / self.radius
Normal(sphere, p) ==
    [v |-> sub(p.v, mul(p.den, sphere.center)), den |-> p.den * sphere.radius]

\* A slip that lets a root on the bound pass.
WithinClosed(t_min, t, t_max) ==
    ~ FracLess(t, t_min) /\ ~ FracLess(t_max, t)

\* t_min < t && t < t_max
Within(t_min, t, t_max) == FracLess(t_min, t) /\ FracLess(t, t_max)

NoHit == [hit |-> FALSE]

\* Some(HitRecord { t, p, normal, material })
HitAt(sphere, ray, t) ==
    LET p == at_t(ray, t)
    IN  [hit |-> TRUE, t |-> t, p |-> p, normal |-> Normal(sphere, p),
         material |-> sphere.material]

Sphere_hit(sphere, ray, t_min, t_max) ==
    LET oc == sub(ray.origin, sphere.center)
        a  == length_sq(ray.dir)
        b  == dot(oc, ray.dir)
        discriminant == Discriminant(sphere, ray)
    IN  IF discriminant >= 0
        THEN LET first  == Frac((- b) - sqrt(discriminant), a)
                 second == Frac((- b) + sqrt(discriminant), a)
             IN  IF Within(t_min, first, t_max)
                 THEN HitAt(sphere, ray, first)
                 ELSE IF Within(t_min, second, t_max)
                 THEN HitAt(sphere, ray, second)
                 ELSE NoHit
        ELSE NoHit

(***************************************************************************)
(* SpecSphere: Sphere::hit on spheres centred in the plane z = 0, rays     *)
(* from the origin and integer bounds.                                     *)
(***************************************************************************)
\* The directions of the rays: every non-zero vector with components -1..1.
Directions == Grid3(1) \ {xxx(0)}

\* A negative radius is how the scenes make a sphere hollow.
Radii(r) == {-1} \cup (1..r)

Exact(sphere, ray) ==
    Discriminant(sphere, ray) < 0 \/ IsSquare(Discriminant(sphere, ray))

SphereCalls ==
    {c \in [fn     : {"Sphere::hit"},
            sphere : [center : {xyz(x, y, 0) : x \in (- MaxCenter)..MaxCenter,
                                               y \in (- MaxCenter)..MaxCenter},
                      radius : Radii(MaxRadius),
                      material : {"glass"}],
            ray    : [origin : {xxx(0)}, dir : Directions],
            t_min  : {0, 1},
            t_max  : 0..MaxT] :
        Exact(c.sphere, c.ray)}

InitSphere ==
    /\ Idle
    /\ call \in SphereCalls
    /\ ret = NoCall

ApplySphereHit ==
    Apply("Sphere::hit", Sphere_hit(call.sphere, call.ray,
                                    Frac(call.t_min, 1), Frac(call.t_max, 1)))

NextSphere == ApplySphereHit

SpecSphere == InitSphere /\ [][NextSphere]_vars

\* The numerators k of the solutions k / a of a t^2 + 2 b t + c = 0 that lie
\* strictly between the bounds.
RootsWithin(sphere, ray, t_min, t_max) ==
    LET oc == sub(ray.origin, sphere.center)
        a  == length_sq(ray.dir)
        b  == dot(oc, ray.dir)
        c  == length_sq(oc) - sphere.radius * sphere.radius
        span == 2 * (MaxCenter + MaxRadius + MaxT + 1) * a
    IN  {k \in (- span)..span :
            /\ k * k + 2 * b * k + a * c = 0
            /\ t_min * a < k
            /\ k < t_max * a}

\* C15: Sphere::hit returns none when the discriminant is negative; otherwise
\* the smaller root if it lies strictly inside (t_min, t_max), else the larger
\* root if it does, else none.  A returned record has t_min < t < t_max,
\* point = origin + t * direction and normal = (point - center) / radius.
C15_SphereHitNearestRoot ==
    ret.fn = "Sphere::hit" =>
        LET sphere == call.sphere
            ray    == call.ray
            a      == length_sq(ray.dir)
            roots  == RootsWithin(sphere, ray, call.t_min, call.t_max)
            r      == ret.value
        IN  /\ Discriminant(sphere, ray) < 0 => ~ r.hit
            /\ r.hit <=> roots # {}
            /\ r.hit =>
                  /\ r.t.den = a
                  /\ r.t.num \in roots
                  /\ \A k \in roots : r.t.num <= k
                  /\ call.t_min * r.t.den < r.t.num
                  /\ r.t.num < call.t_max * r.t.den
                  /\ r.material = sphere.material
                  \* point = origin + t * direction
                  /\ r.p.den = r.t.den
                  /\ r.p.v = add(mul(r.t.den, ray.origin), mul(r.t.num, ray.dir))
                  \* the point lies on the sphere
                  /\ length_sq(sub(r.p.v, mul(r.p.den, sphere.center)))
                        = sphere.radius * sphere.radius * r.p.den * r.p.den
                  \* radius * normal = point - center
                  /\ mul(sphere.radius * r.p.den, r.normal.v)
                        = mul(r.normal.den, sub(r.p.v, mul(r.p.den, sphere.center)))

\* The smaller root lies on the lower bound, so the larger one is returned.
C15_Witness ==
    /\ ret.fn = "Sphere::hit"
    /\ ret.value.hit
    /\ Cardinality(RootsWithin(call.sphere, call.ray, call.t_min - 1, call.t_max)) = 2
    /\ Cardinality(RootsWithin(call.sphere, call.ray, call.t_min, call.t_max)) = 1
    /\ call.t_min * ret.value.t.den
          \in RootsWithin(call.sphere, call.ray, call.t_min - 1, call.t_max)

(***************************************************************************)
(* SpecList: HitableList::hit -- src/src/hitable.rs, lines 123-136, on     *)
(* lists of spheres centred on the x axis and rays along it.              *)
(***************************************************************************)
\* A slip that keeps searching the whole interval.
SearchBoundFixed(t_max, closest) == t_max

\* hitable.hit(ray, t_min, closest): the upper bound of the member's search.
SearchBound(t_max, closest) == closest

RECURSIVE HitFrom(_, _, _, _, _, _, _)
\* The `for hitable in self.hitables.iter()` loop from position i on.
HitFrom(hitables, i, ray, t_min, t_max, closest, o_hit_record) ==
    IF i > Len(hitables) THEN o_hit_record
    ELSE LET new_record == Sphere_hit(hitables[i], ray, t_min,
                                      SearchBound(t_max, closest))
         IN  IF new_record.hit
             THEN HitFrom(hitables, i + 1, ray, t_min, t_max, new_record.t,
                          new_record)
             ELSE HitFrom(hitables, i + 1, ray, t_min, t_max, closest,
                          o_hit_record)

HitableList_hit(hitables, ray, t_min, t_max) ==
    HitFrom(hitables, 1, ray, t_min, t_max, t_max, NoHit)

\* The lists of at most n spheres; a member's material tells its position.
SphereLists(n) ==
    LET shapes == [center : {xyz(x, 0, 0) : x \in 1..MaxListCenter},
                   radius : {1, 2}]
        lists  == UNION {[1..len -> shapes] : len \in 0..n}
    IN  {[k \in DOMAIN l |-> [center |-> l[k].center, radius |-> l[k].radius,
                              material |-> k]] : l \in lists}

ListCalls ==
    [fn       : {"HitableList::hit"},
     hitables : SphereLists(MaxMembers),
     ray      : [origin : {xxx(0)}, dir : {xyz(1, 0, 0), xyz(2, 0, 0)}],
     t_min    : {0, 1},
     t_max    : 0..MaxListT]

InitList ==
    /\ Idle
    /\ call \in ListCalls
    /\ ret = NoCall

ApplyListHit ==
    Apply("HitableList::hit",
          HitableList_hit(call.hitables, call.ray,
                          Frac(call.t_min, 1), Frac(call.t_max, 1)))

NextList == ApplyListHit

SpecList == InitList /\ [][NextList]_vars

\* What member k alone reports in the interval of the call.
MemberHit(k) ==
    Sphere_hit(call.hitables[k], call.ray,
               Frac(call.t_min, 1), Frac(call.t_max, 1))

\* C12: HitableList::hit returns none iff no member has a hit in the open
\* interval (t_min, t_max); otherwise the record with the least t over the
\* members' hits in that interval, and among members that hit at that least
\* t the record of the one that comes first in the list.
C12_ListHitNearestFirst ==
    ret.fn = "HitableList::hit" =>
        LET hitters == {k \in DOMAIN call.hitables : MemberHit(k).hit}
            r == ret.value
        IN  /\ r.hit <=> hitters # {}
            /\ r.hit =>
                  /\ r.material \in hitters
                  /\ r = MemberHit(r.material)
                  /\ \A k \in hitters : ~ FracLess(MemberHit(k).t, r.t)
                  /\ \A k \in hitters :
                        (~ FracLess(r.t, MemberHit(k).t)) => r.material <= k

\* Three members hit; the first and the third share the least t, the second
\* is farther.
C12_Witness ==
    /\ ret.fn = "HitableList::hit"
    /\ Len(call.hitables) = 3
    /\ \A k \in 1..3 : MemberHit(k).hit
    /\ ret.value.hit
    /\ ret.value.material = 1
    /\ FracLess(ret.value.t, MemberHit(2).t)
    /\ ~ FracLess(ret.value.t, MemberHit(3).t)
    /\ call.hitables[1] # [call.hitables[3] EXCEPT !.material = 1]

(***************************************************************************)
(* SpecBox: HitableList::bounding_box and Aabb::surrounding --             *)
(* src/src/hitable.rs, lines 138-182.  The list is given by what its       *)
(* members' bounding_box returned (the mapped iterator of line 140): a     *)
(* box, or none for a member that is itself an empty list.  Float3::min    *)
(* and Float3::max are called but not defined in float3.rs; they are the   *)
(* component-wise minimum and maximum.                                     *)
(***************************************************************************)
\* Float3::min
min(a, b) ==
    xyz(IF a.x < b.x THEN a.x ELSE b.x,
        IF a.y < b.y THEN a.y ELSE b.y,
        IF a.z < b.z THEN a.z ELSE b.z)

\* Float3::max
max(a, b) ==
    xyz(IF a.x > b.x THEN a.x ELSE b.x,
        IF a.y > b.y THEN a.y ELSE b.y,
        IF a.z > b.z THEN a.z ELSE b.z)

Aabb(lo, hi) == [min |-> lo, max |-> hi]

NoBox == [some |-> FALSE]

SomeBox(aabb) == [some |-> TRUE, aabb |-> aabb]

\* A slip that forgets the boxes met so far.
surroundingSecond(box0, box1) == box1

\* Aabb::surrounding
surrounding(box0, box1) ==
    Aabb(min(box0.min, box1.min), max(box0.max, box1.max))

RECURSIVE BoxFrom(_, _, _)
\* The `for o_next_box in iter` loop from position i on.
BoxFrom(boxes, i, running_aabb) ==
    IF i > Len(boxes) THEN SomeBox(running_aabb)
    ELSE IF boxes[i].some
         THEN BoxFrom(boxes, i + 1, surrounding(running_aabb, boxes[i].aabb))
         ELSE NoBox

HitableList_bounding_box(boxes) ==
    IF Len(boxes) = 0 THEN NoBox
    ELSE IF boxes[1].some THEN BoxFrom(boxes, 2, boxes[1].aabb)
         ELSE NoBox

\* What a member may answer: none, or one of a few overlapping, nested and
\* disjoint boxes.
MemberBoxes ==
    {NoBox} \cup
    {SomeBox(Aabb(xyz(x, y, 0), xyz(x + e, y + 1, e))) :
        x \in 0..MaxBoxCoord, y \in {0, 1}, e \in {1, 2}}

BoxCalls ==
    [fn    : {"HitableList::bounding_box"},
     boxes : UNION {[1..len -> MemberBoxes] : len \in 0..MaxBoxMembers}]

InitBox ==
    /\ Idle
    /\ call \in BoxCalls
    /\ ret = NoCall

ApplyBoundingBox ==
    Apply("HitableList::bounding_box", HitableList_bounding_box(call.boxes))

NextBox == ApplyBoundingBox

SpecBox == InitBox /\ [][NextBox]_vars

\* m is the least (sign = 1) or greatest (sign = -1) element of the set.
Extreme(m, set, sign) == m \in set /\ \A v \in set : sign * m <= sign * v

\* The bijections of 1..n onto itself.
Orders(n) == {f \in [1..n -> 1..n] : \A k \in 1..n : \E j \in 1..n : f[j] = k}

\* C13: HitableList::bounding_box returns none if the list is empty or any
\* member returns none; otherwise the box whose min is the component-wise
\* minimum and whose max is the component-wise maximum over all members'
\* boxes, whatever the order of the members.
C13_ListBoxIsUnion ==
    ret.fn = "HitableList::bounding_box" =>
        LET boxes == call.boxes
            n     == Len(boxes)
            members == {boxes[k] : k \in 1..n}
            r     == ret.value
        IN  /\ r.some <=> (n > 0 /\ \A b \in members : b.some)
            /\ r.some =>
                  /\ Extreme(r.aabb.min.x, {b.aabb.min.x : b \in members}, 1)
                  /\ Extreme(r.aabb.min.y, {b.aabb.min.y : b \in members}, 1)
                  /\ Extreme(r.aabb.min.z, {b.aabb.min.z : b \in members}, 1)
                  /\ Extreme(r.aabb.max.x, {b.aabb.max.x : b \in members}, -1)
                  /\ Extreme(r.aabb.max.y, {b.aabb.max.y : b \in members}, -1)
                  /\ Extreme(r.aabb.max.z, {b.aabb.max.z : b \in members}, -1)
            /\ \A f \in Orders(n) :
                  HitableList_bounding_box([k \in 1..n |-> boxes[f[k]]]) = r

\* Three different boxes, none of which is the union: the result has its
\* min from one member and its max from another.
C13_Witness ==
    /\ ret.fn = "HitableList::bounding_box"
    /\ Len(call.boxes) = 3
    /\ ret.value.some
    /\ \A k \in 1..3 : call.boxes[k].aabb # ret.value.aabb
    /\ call.boxes[1] # call.boxes[2]
    /\ call.boxes[2] # call.boxes[3]

(***************************************************************************)
(* SpecSlab: Aabb::hit -- src/src/hitable.rs, lines 184-199, on rays whose *)
(* direction has components 1 and -1, so that the reciprocal and every     *)
(* product are exact integers.  The component-wise product of two Float3   *)
(* is called but not defined in float3.rs.                                 *)
(***************************************************************************)
\* impl ops::Div<Float3> for $prim: k / a, for components that divide k.
div(k, a) == xyz(k \div a.x, k \div a.y, k \div a.z)

\* Float3 * Float3
mulFloat3(a, b) == xyz(a.x * b.x, a.y * b.y, a.z * b.z)

\* #[derive(PartialOrd)] on Float3: a < b compares x, then y, then z.
LexLess(a, b) ==
    \/ a.x < b.x
    \/ a.x = b.x /\ a.y < b.y
    \/ a.x = b.x /\ a.y = b.y /\ a.z < b.z

\* mem::swap of one component when the ray goes backwards along the axis.
SwapIf(backwards, pair) ==
    IF backwards THEN [lo |-> pair.hi, hi |-> pair.lo] ELSE pair

Aabb_hit(self, ray, tmin, tmax) ==
    LET inv_dir == div(1, ray.dir)
        t0 == mulFloat3(sub(self.min, ray.origin), inv_dir)
        t1 == mulFloat3(sub(self.max, ray.origin), inv_dir)
        sx == SwapIf(inv_dir.x < 0, [lo |-> t0.x, hi |-> t1.x])
        sy == SwapIf(inv_dir.y < 0, [lo |-> t0.y, hi |-> t1.y])
        sz == SwapIf(inv_dir.z < 0, [lo |-> t0.z, hi |-> t1.z])
        t0_min == min(xyz(sx.lo, sy.lo, sz.lo), xxx(tmin))
        t1_max == max(xyz(sx.hi, sy.hi, sz.hi), xxx(tmax))
    IN  LexLess(t0_min, t1_max)

SlabCalls ==
    [fn   : {"Aabb::hit"},
     self : {Aabb(xxx(0), xxx(1)), Aabb(xxx(0), xyz(2, 1, 1))},
     ray  : [origin : {xyz(x, y, 0) : x, y \in (- 1)..MaxSlabOrigin},
             dir    : {xyz(x, y, z) : x, y, z \in {- 1, 1}}],
     tmin : {0, 1},
     tmax : 0..MaxSlabT]

InitSlab ==
    /\ Idle
    /\ call \in SlabCalls
    /\ ret = NoCall

ApplyAabbHit ==
    Apply("Aabb::hit", Aabb_hit(call.self, call.ray, call.tmin, call.tmax))

NextSlab == ApplyAabbHit

SpecSlab == InitSlab /\ [][NextSlab]_vars

\* Where the ray of the call enters (which = "entry") and leaves the slab of
\* the box along one axis: the smaller and the larger of (min - origin) / dir
\* and (max - origin) / dir, the direction being 1 or -1.
SlabT(axis, which) ==
    LET a == (call.self.min[axis] - call.ray.origin[axis]) * call.ray.dir[axis]
        b == (call.self.max[axis] - call.ray.origin[axis]) * call.ray.dir[axis]
    IN  IF (which = "entry") = (a < b) THEN a ELSE b

\* C14: Aabb::hit returns true iff max(t_min, entry_x, entry_y, entry_z) <
\* min(t_max, exit_x, exit_y, exit_z), the per-axis entry and exit being
\* taken after the swap for negative reciprocal directions.
C14_AabbHitIsSlabTest ==
    ret.fn = "Aabb::hit" =>
        LET axes    == {"x", "y", "z"}
            entries == {call.tmin} \cup {SlabT(c, "entry") : c \in axes}
            exits   == {call.tmax} \cup {SlabT(c, "exit") : c \in axes}
        IN  ret.value <=> (\A lo \in entries : \A hi \in exits : lo < hi)

(***************************************************************************)
(* SpecDielectric: Dielectric::scatter -- src/src/material.rs, lines       *)
(* 86-143, with schlick of src/src/math.rs, lines 5-9.  Directions have an *)
(* integer length and normals are unit axes, so that the cosine and the    *)
(* reflectance are exact fractions.  Float3::refract is called but not     *)
(* defined in float3.rs: what it returned, none or a direction, is an      *)
(* input of the call, and so is the uniform draw.                          *)
(***************************************************************************)
RECURSIVE Gcd(_, _)
Gcd(a, b) == IF b = 0 THEN a ELSE Gcd(b, a % b)

\* The same fraction in lowest terms over a positive denominator.
Lowest(f) ==
    LET sign == IF f.den < 0 THEN - 1 ELSE 1
        n == sign * f.num
        d == sign * f.den
        g == Gcd(IF n < 0 THEN - n ELSE n, d)
    IN  Frac(n \div g, d \div g)

FracAdd(a, b) == Lowest(Frac(a.num * b.den + b.num * a.den, a.den * b.den))

FracSub(a, b) == Lowest(Frac(a.num * b.den - b.num * a.den, a.den * b.den))

FracMul(a, b) == Lowest(Frac(a.num * b.num, a.den * b.den))

FracDiv(a, b) == Lowest(Frac(a.num * b.den, a.den * b.num))

RECURSIVE powi(_, _)
\* f64::powi
powi(f, n) == IF n = 0 THEN Frac(1, 1) ELSE FracMul(f, powi(f, n - 1))

\* schlick of math.rs
schlick(cosine, refraction_index) ==
    LET one == Frac(1, 1)
        r   == FracDiv(FracSub(one, refraction_index),
                       FracAdd(one, refraction_index))
        r0  == FracMul(r, r)
    IN  FracAdd(r0, FracMul(FracSub(one, r0), powi(FracSub(one, cosine), 5)))

\* Float3::reflect
reflect(v, n) == sub(v, mul(2 * dot(v, n), n))

\* ray_in.dir.unit().dot(&record.normal), for a direction of integer length.
UnitDot(v, n) == Lowest(Frac(dot(v, n), sqrt(length_sq(v))))

\* The inside/outside branch: the normal and the index handed to refract,
\* and the cosine handed to schlick.
Facing(self, ray_in, record) ==
    IF dot(ray_in.dir, record.normal) > 0
    THEN [outward_normal   |-> neg(record.normal),
          refraction_index |-> self.refraction_index,
          cosine |-> FracMul(self.refraction_index,
                             UnitDot(ray_in.dir, record.normal))]
    ELSE [outward_normal   |-> record.normal,
          refraction_index |-> FracDiv(Frac(1, 1), self.refraction_index),
          cosine |-> FracSub(Frac(0, 1), UnitDot(ray_in.dir, record.normal))]

\* A slip that reflects a draw equal to the reflectance.
RefractsStrictly(draw, reflectance) == FracLess(reflectance, draw)

\* random_float() >= schlick(cosine, refraction_index)
Refracts(draw, reflectance) == ~ FracLess(draw, reflectance)

NoDir == [some |-> FALSE]

SomeDir(v) == [some |-> TRUE, dir |-> v]

\* A slip that leaves the outgoing ray with the time of Ray::default().
TimeOfDefault(ray_in) == 0

\* t: ray_in.t
TimeOf(ray_in) == ray_in.t

\* What scatter leaves in its out-parameters and returns.
Scattered(ok, attenuation, origin, dir, t) ==
    [ok |-> ok, attenuation |-> attenuation,
     scattered |-> [origin |-> origin, dir |-> dir, t |-> t]]

Dielectric_scatter(self, ray_in, record, o_refracted, draw) ==
    LET reflected == reflect(ray_in.dir, record.normal)
        facing    == Facing(self, ray_in, record)
        scattered_dir ==
            IF o_refracted.some
            THEN IF Refracts(draw, schlick(facing.cosine,
                                           facing.refraction_index))
                 THEN o_refracted.dir
                 ELSE reflected
            ELSE reflected
    IN  Scattered(TRUE, xxx(1), record.p, scattered_dir, TimeOf(ray_in))

\* The directions of integer length.
WholeDirections(c) == {v \in Grid3(c) \ {xxx(0)} : IsSquare(length_sq(v))}

\* The draws of random_float(), in [0, 1): quarters, and the reflectance
\* itself when it is a possible draw.
Draws(reflectance) ==
    {Frac(k, 4) : k \in 0..3} \cup
    (IF reflectance.num >= 0 /\ reflectance.num < reflectance.den
     THEN {reflectance} ELSE {})

\* refract answers none, or a direction on the far side of the surface.
Refractions(outward_normal) == {NoDir, SomeDir(neg(outward_normal))}

DielectricCalls ==
    LET hits == [self   : [refraction_index : {Frac(3, 2), Frac(2, 1)}],
                 ray_in : [origin : {xxx(0)},
                           dir    : WholeDirections(MaxDirCoord),
                           t      : {1}],
                 record : [p : {xyz(1, 2, 3)},
                           normal : {xyz(0, 0, 1), xyz(0, 1, 0)}]]
    IN  UNION {
          LET facing == Facing(h.self, h.ray_in, h.record)
          IN  [fn : {"Dielectric::scatter"}, self : {h.self},
               ray_in : {h.ray_in}, record : {h.record},
               o_refracted : Refractions(facing.outward_normal),
               draw : Draws(schlick(facing.cosine, facing.refraction_index))]
          : h \in hits}

InitDielectric ==
    /\ Idle
    /\ call \in DielectricCalls
    /\ ret = NoCall

ApplyDielectricScatter ==
    Apply("Dielectric::scatter",
          Dielectric_scatter(call.self, call.ray_in, call.record,
                             call.o_refracted, call.draw))

NextDielectric == ApplyDielectricScatter

SpecDielectric == InitDielectric /\ [][NextDielectric]_vars

\* The reflectance of the call: schlick(cosine, relative index).
Reflectance ==
    LET facing == Facing(call.self, call.ray_in, call.record)
    IN  schlick(facing.cosine, facing.refraction_index)

\* C16: Dielectric::scatter always reports a scatter with attenuation
\* (1,1,1); when refract returns none the outgoing direction is the reflected
\* one for every draw; when refract returns a direction, the outgoing
\* direction is the refracted one iff the draw is >= schlick(cosine, relative
\* index), and the reflected one otherwise.
C16_DielectricScatter ==
    ret.fn = "Dielectric::scatter" =>
        LET out       == ret.value.scattered.dir
            reflected == reflect(call.ray_in.dir, call.record.normal)
            at_least  == Reflectance.num * call.draw.den
                            <= call.draw.num * Reflectance.den
        IN  /\ ret.value.ok
            /\ ret.value.attenuation = xyz(1, 1, 1)
            /\ ~ call.o_refracted.some => out = reflected
            /\ call.o_refracted.some =>
                  /\ out = call.o_refracted.dir <=> at_least
                  /\ ~ at_least => out = reflected

\* A draw equal to the reflectance, with a refracted direction at hand.
C16_Witness ==
    /\ ret.fn = "Dielectric::scatter"
    /\ call.o_refracted.some
    /\ call.draw = Reflectance
    /\ ret.value.scattered.dir = call.o_refracted.dir
    /\ ret.value.scattered.dir # reflect(call.ray_in.dir, call.record.normal)

(***************************************************************************)
(* SpecMetal: Metal::scatter -- src/src/material.rs, lines 60-78.  The     *)
(* fuzz and the point drawn by random_in_sphere are in halves and the      *)
(* incoming direction has an integer length, so the outgoing direction is  *)
(* an integer vector over the denominator 4 * length.                      *)
(***************************************************************************)
\* random_in_sphere: the points p / 2 that pass `p.length_sq() < 1.0`.
InSphere == {p \in Grid3(2) : length_sq(p) < 4}

\* reflected + self.fuzz * random_in_sphere(), with reflected =
\* ray_in.dir.unit().reflect(record.normal), fuzz = fuzz2 / 2 and the point
\* drawn = p2 / 2.
MetalDir(v, n, fuzz2, p2) ==
    LET len == sqrt(length_sq(v))
    IN  [v   |-> add(mul(4, reflect(v, n)), mul(fuzz2 * len, p2)),
         den |-> 4 * len]

\* A slip that lets a grazing direction through.
ValidInclusive(d) == d >= 0

\* scattered.dir.dot(&record.normal) > 0.0
Valid(d) == d > 0

Metal_scatter(self, ray_in, record, p2) ==
    LET dir == MetalDir(ray_in.dir, record.normal, self.fuzz2, p2)
    IN  Scattered(Valid(dot(dir.v, record.normal)), self.albedo, record.p, dir,
                  TimeOf(ray_in))

MetalCalls ==
    [fn     : {"Metal::scatter"},
     self   : [albedo : {xxx(0), xyz(1, 0, 1)}, fuzz2 : {0, 1, 2}],
     ray_in : [origin : {xxx(0)}, dir : WholeDirections(MaxDirCoord),
               t : {1}],
     record : [p : {xyz(1, 2, 3)}, normal : {xyz(0, 0, 1), xyz(0, 1, 0)}],
     p2     : InSphere]

InitMetal ==
    /\ Idle
    /\ call \in MetalCalls
    /\ ret = NoCall

ApplyMetalScatter ==
    Apply("Metal::scatter",
          Metal_scatter(call.self, call.ray_in, call.record, call.p2))

NextMetal == ApplyMetalScatter

SpecMetal == InitMetal /\ [][NextMetal]_vars

\* C17: Metal::scatter sets attenuation to the albedo and the outgoing ray's
\* origin to the hit point in every case, and reports a valid scatter iff
\* dot(outgoing direction, hit normal) > 0; a dot <= 0, exactly 0 included,
\* is reported as absorbed.
C17_MetalScatter ==
    ret.fn = "Metal::scatter" =>
        LET out == ret.value.scattered.dir
            d   == dot(out.v, call.record.normal)
        IN  /\ ret.value.attenuation = call.self.albedo
            /\ ret.value.scattered.origin = call.record.p
            /\ out.den > 0
            /\ out = MetalDir(call.ray_in.dir, call.record.normal,
                              call.self.fuzz2, call.p2)
            /\ ret.value.ok <=> ~ (d <= 0)
            /\ d = 0 => ~ ret.value.ok

\* A fuzzed direction that lies exactly in the surface: absorbed, with the
\* attenuation and the origin set all the same.
C17_Witness ==
    /\ ret.fn = "Metal::scatter"
    /\ call.self.fuzz2 > 0
    /\ call.p2 # xxx(0)
    /\ dot(ret.value.scattered.dir.v, call.record.normal) = 0
    /\ ~ ret.value.ok
    /\ ret.value.attenuation = xyz(1, 0, 1)
    /\ ret.value.scattered.origin = call.record.p

(***************************************************************************)
(* SpecSample: the samples of one pixel -- src/src/main.rs, lines 332-355: *)
(* `for sample in 1..(ns+1)` adds color(&ray, &world, 0) to rgb and checks *)
(* the sum.  `call` holds the loop's sample and rgb, `ret` what color      *)
(* returned; color itself runs as in SpecColor.                            *)
(***************************************************************************)
SampleLoop(sample, rgb) ==
    [fn |-> "write_image::samples", sample |-> sample, rgb |-> rgb]

\* No invocation of color is active and none has a result pending.
ColorIdle == frames = << >> /\ color_ret = "none"

\* The three debug_assert!s on rgb after a sample was added.
SaneSum(rgb, sample) ==
    /\ 0 <= rgb.x /\ rgb.x <= Grey(sample, 1).x
    /\ 0 <= rgb.y /\ rgb.y <= Grey(sample, 1).y
    /\ 0 <= rgb.z /\ rgb.z <= Grey(sample, 1).z

InitSample ==
    /\ opt \in {Opt(1, 1, 1, ns, Threads, FALSE) : ns \in 1..MaxSamples}
    /\ Fresh
    /\ run = 1
    /\ first_image = NoImage
    /\ frames = << >>
    /\ color_ret = "none"
    /\ call = SampleLoop(0, Grey(0, 1))
    /\ ret = NoCall

\* The next pass of the loop calls color(&ray, &world, 0).
SampleCast ==
    /\ call.fn = "write_image::samples"
    /\ panic = ""
    /\ ColorIdle
    /\ call.sample < opt.samples_per_pixel
    /\ call' = [call EXCEPT !.sample = @ + 1]
    /\ frames' = <<0>>
    /\ UNCHANGED <<opt, pc, tiles_x, tiles_y, renderVars, color_ret, ret>>

\* color has returned: rgb += ..; then the sanity checks.
SampleAdd ==
    /\ call.fn = "write_image::samples"
    /\ frames = << >>
    /\ color_ret # "none"
    /\ call' = [call EXCEPT !.rgb = add(@, ret.value)]
    /\ color_ret' = "none"
    /\ panic' = IF SaneSum(call'.rgb, call.sample) THEN "" ELSE "rgb out of range"
    /\ UNCHANGED <<opt, pc, tiles_x, tiles_y, tiles, task, NEED_TO_EXIT,
                   listener, imgbuf, next_tile, copied, rendered, polls, late,
                   run, first_image, frames, ret>>

NextSample ==
    \/ SampleCast
    \/ NextColor
    \/ SampleAdd

SpecSample == InitSample /\ [][NextSample]_vars

\* Every component of the colour is within [0, k].
Within0(colour, k) ==
    \A c \in {"x", "y", "z"} : 0 <= colour[c] /\ colour[c] <= 20 * k

\* C20: after the k-th sample has been added every component of the colour
\* accumulator lies in [0, k]; every value color(ray, world, 0) returns has
\* its components in [0, 1], the albedos being in [0, 1].
C20_AccumulatorInRange ==
    call.fn = "write_image::samples" =>
        /\ panic = ""
        /\ ColorIdle => Within0(call.rgb, call.sample)
        /\ ~ ColorIdle => Within0(call.rgb, call.sample - 1)
        /\ (frames = << >> /\ color_ret # "none") => Within0(ret.value, 1)

\* Two samples added, the sum at its upper bound in one component, at its
\* lower bound in another and strictly between the two in the third.
C20_Witness ==
    /\ call.fn = "write_image::samples"
    /\ ColorIdle
    /\ call.sample = 2
    /\ call.rgb.z = 40
    /\ call.rgb.y = 0
    /\ call.rgb.x = 30

(***************************************************************************)
(* Further claims about write_image.                                       *)
(***************************************************************************)
\* The step is one of tile t's task.
TaskStep(t) == TaskStart(t) \/ TaskPixel(t)

\* C21: during the parallel phase each tile task writes only its own tile's
\* pixel buffer and its own progress counter: no step of the task of tile A
\* changes the buffer or the progress of a tile B # A, whatever the
\* interleaving of the tasks.
C21_TasksWriteOwnTile ==
    [][\A a \in Tiles : TaskStep(a) =>
          /\ Len(tiles') = Len(tiles)
          /\ \A b \in Tiles \ {a} :
                /\ tiles'[b].pixels = tiles[b].pixels
                /\ tiles'[b].progress = tiles[b].progress
                /\ task'[b] = task[b]]_vars

\* Two tasks are in their loops at once, each with a pixel written and more
\* to write.
C21_Witness ==
    \E a, b \in Tiles :
        /\ a # b
        /\ task[a].at = "loop" /\ task[b].at = "loop"
        /\ tiles[a].progress.count >= 1 /\ tiles[b].progress.count >= 1
        /\ DOMAIN tiles[a].pixels.data # {}
        /\ DOMAIN tiles[b].pixels.data # {}

(***************************************************************************)
(* SpecScene: the scene and the camera under the calls the tile tasks make *)
(* on them -- Hitable::hit and Hitable::bounding_box of Sphere and of      *)
(* MovingSphere (src/src/hitable.rs, lines 35-116) and Camera::get_ray     *)
(* (src/src/camera.rs, lines 71-81).  Every method takes `&self`; the      *)
(* model returns, next to the method's result, the receiver as the method  *)
(* leaves it.  `call` holds the scene and the camera, and a copy of both   *)
(* as they were built.  Spheres are centred on the x axis, move along it   *)
(* and are met by rays along it.                                           *)
(***************************************************************************)
\* What a method returns, and its receiver afterwards.
Returned(value, self) == [value |-> value, self |-> self]

\* Sphere::bounding_box
Sphere_bounding_box(sphere) ==
    LET r == abs(xxx(sphere.radius))
    IN  SomeBox(Aabb(sub(sphere.center, r), add(sphere.center, r)))

\* A copy of the stored sphere, moved by `shift`: self.sphere.clone(), then
\* sphere.center += shift.
MovedCopy(sphere, shift) == [sphere EXCEPT !.center = add(@, shift)]

\* A slip that moves the stored sphere instead of a copy.
KeptMoved(self, copy) == [self EXCEPT !.sphere = copy]

\* The receiver after its sphere was cloned and the clone moved.
Kept(self, copy) == self

\* A slip that forgets the ray's time.
TimeShiftNone(motion, time) == xxx(0)

\* ray.t * self.motion; self.motion * t0
TimeShift(motion, time) == mul(time, motion)

MovingSphere_hit(self, ray, t_min, t_max) ==
    LET sphere == MovedCopy(self.sphere, TimeShift(self.motion, ray.t))
    IN  Returned(Sphere_hit(sphere, ray, t_min, t_max), Kept(self, sphere))

MovingSphere_bounding_box(self, t0, t1) ==
    LET sphere_t0 == MovedCopy(self.sphere, TimeShift(self.motion, t0))
        sphere_t1 == MovedCopy(self.sphere, TimeShift(self.motion, t1))
    IN  Returned(SomeBox(surrounding(Sphere_bounding_box(sphere_t0).aabb,
                                     Sphere_bounding_box(sphere_t1).aabb)),
                 Kept(Kept(self, sphere_t0), sphere_t1))

\* Box<dyn Hitable>: a Sphere is held with no motion.
Hitable_hit(h, ray, t_min, t_max) ==
    IF h.kind = "Sphere"
    THEN Returned(Sphere_hit(h.sphere, ray, t_min, t_max), h)
    ELSE MovingSphere_hit(h, ray, t_min, t_max)

Hitable_bounding_box(h, t0, t1) ==
    IF h.kind = "Sphere"
    THEN Returned(Sphere_bounding_box(h.sphere), h)
    ELSE MovingSphere_bounding_box(h, t0, t1)

\* Camera::get_ray, for a lens of radius 0 (the offset on the lens is zero).
Camera_get_ray(self, u, v) ==
    LET dir == add(sub(self.lower_left, self.origin),
                   add(mul(u, self.horizontal), mul(v, self.vertical)))
    IN  Returned([origin |-> self.origin, dir |-> dir], self)

SceneSpheres ==
    [center : {xyz(2, 0, 0), xyz(3, 0, 0)}, radius : {- 1, 1},
     material : {"glass"}]

\* A static sphere followed by a moving one.
Worlds ==
    {<<[kind |-> "Sphere", sphere |-> a, motion |-> xxx(0)],
       [kind |-> "MovingSphere", sphere |-> b, motion |-> xyz(m, 0, 0)]>> :
        a \in SceneSpheres, b \in SceneSpheres, m \in (- 1)..1}

SceneCamera ==
    [origin |-> xyz(0, 0, 0), lower_left |-> xyz(4, - 1, - 1),
     horizontal |-> xyz(0, 0, 2), vertical |-> xyz(0, 2, 0)]

\* The rays of the tasks: along the x axis, at a time of the exposure.
SceneRays ==
    [origin : {xxx(0)}, dir : {xyz(1, 0, 0), xyz(- 1, 0, 0)},
     t : 0..MaxSceneTime]

InitScene ==
    /\ Idle
    /\ \E w \in Worlds :
          call = [fn |-> "scene", world |-> w, cam |-> SceneCamera,
                  built |-> [world |-> w, cam |-> SceneCamera]]
    /\ ret = NoCall

\* A task's ray is tested against member k of the scene.
SceneHit ==
    /\ call.fn = "scene"
    /\ \E k \in DOMAIN call.world, ray \in SceneRays :
          LET r == Hitable_hit(call.world[k], ray, Frac(0, 1),
                               Frac(MaxSceneT, 1))
          IN  /\ ret' = [fn |-> "hit", member |-> k, ray |-> ray,
                         value |-> r.value]
              /\ call' = [call EXCEPT !.world[k] = r.self]
    /\ UNCHANGED programVars

\* Member k is asked for its box over [t0, t1].
SceneBox ==
    /\ call.fn = "scene"
    /\ \E k \in DOMAIN call.world, t0, t1 \in 0..MaxSceneTime :
          LET r == Hitable_bounding_box(call.world[k], t0, t1)
          IN  /\ ret' = [fn |-> "bounding_box", member |-> k, t0 |-> t0,
                         t1 |-> t1, value |-> r.value]
              /\ call' = [call EXCEPT !.world[k] = r.self]
    /\ UNCHANGED programVars

\* A task asks the camera for the ray through a corner of the screen.
SceneGetRay ==
    /\ call.fn = "scene"
    /\ \E u, v \in {0, 1} :
          LET r == Camera_get_ray(call.cam, u, v)
          IN  /\ ret' = [fn |-> "get_ray", u |-> u, v |-> v, value |-> r.value]
              /\ call' = [call EXCEPT !.cam = r.self]
    /\ UNCHANGED programVars

NextScene ==
    \/ SceneHit
    \/ SceneBox
    \/ SceneGetRay

SpecScene == InitScene /\ [][NextScene]_vars

\* C22: the scene (every object's centre, radius, motion and material) and
\* the camera are unchanged by every step of the tile tasks; MovingSphere's
\* hit and bounding_box move a private copy and leave the stored sphere's
\* centre as it was.
C22_SceneIsReadOnly ==
    call.fn = "scene" =>
        /\ call.world = call.built.world
        /\ call.cam = call.built.cam

\* A moving sphere has just been hit where it is at the ray's time, away
\* from where it is stored.
C22_Witness ==
    /\ ret.fn = "hit"
    /\ call.world[ret.member].kind = "MovingSphere"
    /\ call.world[ret.member].motion # xxx(0)
    /\ ret.ray.t > 0
    /\ ret.value.hit
    /\ ret.value # Sphere_hit(call.world[ret.member].sphere, ret.ray,
                              Frac(0, 1), Frac(MaxSceneT, 1))
    /\ call.world = call.built.world

\* The box of the sphere stored in h when it is centred where h is at `time`:
\* centre - |radius| to centre + |radius|.
BoxAt(h, time) ==
    LET c == h.sphere.center
        m == h.motion
        r == IF h.sphere.radius < 0 THEN - h.sphere.radius ELSE h.sphere.radius
        at == xyz(c.x + time * m.x, c.y + time * m.y, c.z + time * m.z)
    IN  Aabb(xyz(at.x - r, at.y - r, at.z - r), xyz(at.x + r, at.y + r, at.z + r))

\* Box `inner` lies in box `outer`.
BoxInside(inner, outer) ==
    \A c \in {"x", "y", "z"} :
        outer.min[c] <= inner.min[c] /\ inner.max[c] <= outer.max[c]

\* C24: MovingSphere::hit tests the ray against a sphere centred at
\* sphere.center + ray.time * motion (with zero motion: the result of
\* Sphere::hit on the embedded sphere); MovingSphere::bounding_box(t0, t1)
\* returns the union of the sphere's boxes at t0 and at t1, which contains
\* the sphere's box at every time between; a Sphere's box has min <= max on
\* every axis, also for a negative radius.
C24_MovingSphereFollowsTime ==
    LET h == call.built.world[ret.member]
        moving == h.kind = "MovingSphere"
    IN  /\ (ret.fn = "hit" /\ moving) =>
              LET c == h.sphere.center
                  at == xyz(c.x + ret.ray.t * h.motion.x,
                            c.y + ret.ray.t * h.motion.y,
                            c.z + ret.ray.t * h.motion.z)
              IN  /\ ret.value = Sphere_hit([h.sphere EXCEPT !.center = at],
                                            ret.ray, Frac(0, 1),
                                            Frac(MaxSceneT, 1))
                  /\ h.motion = xxx(0) =>
                        ret.value = Sphere_hit(h.sphere, ret.ray, Frac(0, 1),
                                               Frac(MaxSceneT, 1))
        /\ (ret.fn = "bounding_box" /\ moving) =>
              LET ends == {BoxAt(h, ret.t0), BoxAt(h, ret.t1)}
                  box  == ret.value.aabb
              IN  /\ ret.value.some
                  /\ \A c \in {"x", "y", "z"} :
                        /\ Extreme(box.min[c], {b.min[c] : b \in ends}, 1)
                        /\ Extreme(box.max[c], {b.max[c] : b \in ends}, - 1)
                  /\ \A time \in 0..MaxSceneTime :
                        ((ret.t0 <= time /\ time <= ret.t1)
                            \/ (ret.t1 <= time /\ time <= ret.t0)) =>
                                BoxInside(BoxAt(h, time), box)
        /\ (ret.fn = "bounding_box" /\ ~ moving) =>
              /\ ret.value.some
              /\ ret.value.aabb = BoxAt(h, 0)
              /\ \A c \in {"x", "y", "z"} :
                    ret.value.aabb.min[c] < ret.value.aabb.max[c]

\* The box of a moving sphere of negative radius over an interval with a
\* time strictly inside it.
C24_Witness ==
    /\ ret.fn = "bounding_box"
    /\ call.built.world[ret.member].kind = "MovingSphere"
    /\ call.built.world[ret.member].motion # xxx(0)
    /\ call.built.world[ret.member].sphere.radius < 0
    /\ ret.t0 + 1 < ret.t1
    /\ ret.value.aabb # BoxAt(call.built.world[ret.member], ret.t0)
    /\ ret.value.aabb # BoxAt(call.built.world[ret.member], ret.t1)


(***************************************************************************)
(* Further claims about color.                                             *)
(***************************************************************************)

\* C23: when a hit at depth < MAX_RAY_RECURSION does not scatter, color
\* returns exactly the attenuation its material's scatter wrote (the albedo
\* of a Metal, the unit normal of a NormalToRgb).
C23_AbsorbReturnsAttenuation ==
    color_ret = "attenuation" =>
        ret.value = Attenuate(ret.attenuation, Grey(1, 1))

(***************************************************************************)
(* Further claims about the per-pixel loop.                                *)
(***************************************************************************)
\* The first n pixels of the row-major enumeration of an image.
RowMajorPrefix(image, n) ==
    {<<i % image.width, i \div image.width>> : i \in 0..(n - 1)}

\* C25: within a tile the pixels are written in row-major order and each at
\* most once -- the written pixels are a prefix of the row-major enumeration
\* of the tile's buffer, one pixel per write -- and each written pixel
\* received exactly ns samples before it was written.
C25_RowMajorPrefix ==
    \A t \in DOMAIN task :
        LET written == DOMAIN tiles[t].pixels.data
        IN  /\ written = RowMajorPrefix(tiles[t].pixels, task[t].cursor)
            /\ Cardinality(written) = tiles[t].progress.count
            /\ Len(task[t].samples) = Cardinality(written)
            /\ \A i \in DOMAIN task[t].samples :
                  task[t].samples[i] = opt.samples_per_pixel

\* A tile of two rows and two columns with its first row and the first
\* pixel of its second row written, the last pixel not yet.
C25_Witness ==
    \E t \in DOMAIN task :
        /\ tiles[t].pixels.width = 2
        /\ tiles[t].pixels.height = 2
        /\ DOMAIN tiles[t].pixels.data = {<<0, 0>>, <<1, 0>>, <<0, 1>>}
        /\ task[t].samples = <<DefaultSamples, DefaultSamples, DefaultSamples>>

\* C26: for every tile and every pixel (px, py) of it, the flipped row
\* ny - (py + offset_y) + 1 is computed without unsigned underflow and lies
\* in 0..ny-1, and the column px + offset_x lies in 0..nx-1.
C26_RayCoordinatesInImage ==
    \A t \in DOMAIN task :
        task[t].cursor > 0 =>
            /\ ~ task[t].underflow
            /\ task[t].y \in 0..(opt.height - 1)
            /\ task[t].x \in 0..(opt.width - 1)

(***************************************************************************)
(* SpecFair: write_image with its threads scheduled -- every pool thread   *)
(* runs the closure it took to its end, the listener thread returns from   *)
(* listen() once it can, and the main thread goes on after for_each and    *)
(* after join().  The Ctrl+C handler may or may not run.                   *)
(***************************************************************************)
SpecFair ==
    /\ Spec
    /\ \A t \in 1..MaxPixels : WF_vars(t \in DOMAIN task /\ TaskStep(t))
    /\ WF_vars(ListenerEnd)
    /\ WF_vars(ParallelDone)
    /\ WF_vars(JoinListener)

\* The bar of a tile never counts more than the tile's pixels, and is
\* finished exactly when the tile's closure has returned.
BarsInBounds ==
    \A t \in DOMAIN task :
        /\ tiles[t].progress.count <= PixelTotal(t)
        /\ tiles[t].progress.finished <=> task[t].at = "done"

\* A finished bar is neither incremented nor finished again.
FinishIsLast ==
    \A t \in DOMAIN task :
        tiles[t].progress.finished =>
            /\ t \in DOMAIN task'
            /\ tiles'[t].progress = tiles[t].progress
            /\ task'[t] = task[t]

\* C27: every tile that was created -- with checkerboard skipping and with
\* cancellation too -- has its progress finished exactly once, after its
\* last increment, and its count never exceeds its pixel total; so the
\* listener thread always terminates and the join on it does not block for
\* ever.
C27_ListenerTerminates ==
    /\ [] BarsInBounds
    /\ [][FinishIsLast]_vars
    /\ (pc = "render") ~> (listener = "ended")
    /\ (pc = "render") ~> (pc = "assemble")

\* A checkerboard render that was cancelled: a tile was skipped, another
\* finished short of its total, the listener ended and was joined.
C27_Witness ==
    /\ opt.checkerboard_tiles
    /\ Len(tiles) < tiles_x * tiles_y
    /\ pc = "assemble"
    /\ listener = "ended"
    /\ \E t \in DOMAIN task :
          /\ tiles[t].progress.finished
          /\ tiles[t].progress.count < PixelTotal(t)

(***************************************************************************)
(* Further claims about the prologue of write_image.                       *)
(***************************************************************************)
\* C28: for every image size that is accepted, px_count and the tile count
\* tiles_x * tiles_y are computed without 32-bit wraparound: px_count is
\* the mathematical product W * H, also when W * H >= 2^32.
C28_PixelCountExact ==
    (tiles # << >> /\ ~ opt.checkerboard_tiles) =>
        /\ FitsU32(U64Mul(U64Of(tiles_x), U64Of(tiles_y)))
        /\ PxCount(opt.width, opt.height) = PxProduct(opt.width, opt.height)
        /\ panic # "attempt to multiply with overflow"

\* C29: for every tile count N, zero included, pick_tiling_dimensions
\* returns x >= 1 and y >= 1, so the remainders and quotients by tiles_x and
\* tiles_y are defined, and a bad tile count is reported by the
\* configuration assertions, never by a division by zero.
C29_GridIsPositive ==
    pc # "start" =>
        /\ tiles_x >= 1
        /\ tiles_y >= 1
        /\ panic # "remainder by zero"

(***************************************************************************)
(* SpecPath: one light path -- color (src/src/main.rs, lines 408-418)      *)
(* hands the ray its material scattered to the next invocation.  `call`    *)
(* holds the camera ray, the ray of the invocation at hand and its depth,  *)
(* `ret` the last scatter with its arguments.  Directions are the six      *)
(* axis directions; a path whose scattered direction leaves them is not    *)
(* followed further.  Ray has no field `t` in ray.rs; the model gives it   *)
(* the one material.rs reads and writes.                                   *)
(***************************************************************************)
Axes == {v \in Grid3(1) : length_sq(v) = 1}

\* Lambertian::scatter: target = record.p + record.normal +
\* random_in_sphere(), the point drawn being p2 / 2; the direction is
\* target - record.p, over the denominator 2.
Lambertian_scatter(self, ray_in, record, p2) ==
    LET target2 == add(add(mul(2, record.p), mul(2, record.normal)), p2)
    IN  Scattered(TRUE, self.albedo, record.p,
                  [v |-> sub(target2, mul(2, record.p)), den |-> 2],
                  TimeOf(ray_in))

PathMaterials ==
    [kind : {"Lambertian"}, albedo : {xyz(1, 0, 1)}]
    \cup [kind : {"Metal"}, albedo : {xyz(1, 0, 1)}, fuzz2 : {0, 1}]
    \cup [kind : {"Dielectric"}, refraction_index : {Frac(3, 2)}]

\* The ray is on the path and color may still call scatter for it.
OnPath ==
    /\ call.fn = "color"
    /\ call.live
    /\ MayScatter(call.depth)
    /\ call.depth < MaxPathDepth

\* The hit records of the ray: a point one step along it, any axis normal.
PathHits(ray) == [p : {add(ray.origin, ray.dir)}, normal : Axes]

\* scatter has returned `r`: when it reports a scatter, color(&scattered,
\* world, depth + 1) is entered with the scattered ray.
Follow(fn, self, record, r, dir) ==
    /\ ret' = [fn |-> fn, self |-> self, ray_in |-> call.ray,
               record |-> record, value |-> r]
    /\ call' = IF r.ok /\ dir.den # 0 /\ dir.v = mul(dir.den, dir.w)
                       /\ dir.w \in Axes
               THEN [call EXCEPT !.depth = @ + 1,
                                 !.ray = [origin |-> r.scattered.origin,
                                          dir    |-> dir.w,
                                          t      |-> r.scattered.t]]
               ELSE [call EXCEPT !.live = FALSE]
    /\ UNCHANGED programVars

\* The direction v / den with its whole part w.
Whole(v, den) ==
    [v |-> v, den |-> den,
     w |-> xyz(v.x \div den, v.y \div den, v.z \div den)]

InitPath ==
    /\ Idle
    /\ \E dir \in Axes, t \in 0..MaxPathTime :
          LET ray == [origin |-> xxx(0), dir |-> dir, t |-> t]
          IN  call = [fn |-> "color", camera |-> ray, ray |-> ray,
                      depth |-> 0, live |-> TRUE]
    /\ ret = NoCall

PathLambertian ==
    /\ OnPath
    /\ \E self \in {m \in PathMaterials : m.kind = "Lambertian"},
          record \in PathHits(call.ray), p2 \in InSphere :
          LET r == Lambertian_scatter(self, call.ray, record, p2)
          IN  Follow("Lambertian::scatter", self, record, r,
                     Whole(r.scattered.dir.v, r.scattered.dir.den))

PathMetal ==
    /\ OnPath
    /\ \E self \in {m \in PathMaterials : m.kind = "Metal"},
          record \in PathHits(call.ray), p2 \in InSphere :
          LET r == Metal_scatter(self, call.ray, record, p2)
          IN  Follow("Metal::scatter", self, record, r,
                     Whole(r.scattered.dir.v, r.scattered.dir.den))

PathDielectric ==
    /\ OnPath
    /\ \E self \in {m \in PathMaterials : m.kind = "Dielectric"},
          record \in PathHits(call.ray) :
          LET facing == Facing(self, call.ray, record)
          IN  \E o_refracted \in Refractions(facing.outward_normal),
                 draw \in Draws(schlick(facing.cosine,
                                        facing.refraction_index)) :
                 LET r == Dielectric_scatter(self, call.ray, record,
                                             o_refracted, draw)
                 IN  Follow("Dielectric::scatter", self, record, r,
                            Whole(r.scattered.dir, 1))

NextPath ==
    \/ PathLambertian
    \/ PathMetal
    \/ PathDielectric

SpecPath == InitPath /\ [][NextPath]_vars

\* C30: the scatter of Lambertian, of Metal and of Dielectric each leaves an
\* outgoing ray whose origin is the hit point and whose time is the
\* incoming ray's; Lambertian always reports a scatter, with the albedo as
\* attenuation; hence every ray of a light path carries the time of the
\* camera ray.
C30_PathKeepsTime ==
    /\ ret.fn \in {"Lambertian::scatter", "Metal::scatter",
                    "Dielectric::scatter"} =>
          /\ ret.value.scattered.origin = ret.record.p
          /\ ret.value.scattered.t = ret.ray_in.t
          /\ ret.fn = "Lambertian::scatter" =>
                /\ ret.value.ok
                /\ ret.value.attenuation = ret.self.albedo
    /\ call.fn = "color" => call.ray.t = call.camera.t

\* A path two scatters long with a camera ray of time 1, whose third ray
\* left a Metal or a Dielectric at a point off the camera.
C30_Witness ==
    /\ call.fn = "color"
    /\ call.camera.t = 1
    /\ call.depth = 2
    /\ call.live
    /\ call.ray.origin # call.camera.origin
    /\ ret.fn # "Lambertian::scatter"
    /\ ret.ray_in.origin # call.camera.origin

====================
